---------------------------- MODULE Spec2Model ----------------------------
(***************************************************************************)
(* A model of the goal tracker's progress engine (src/tracker.py) and of   *)
(* the request handlers of src/app.py that drive it.                       *)
(*                                                                         *)
(* Conventions                                                             *)
(*  - A calendar date "YYYY-MM-DD" is the integer number of days since a   *)
(*    fixed Monday, so weekday() is the day modulo 7 (0 = Monday).         *)
(*  - A Python str is a sequence of one-character strings, so that str()   *)
(*    and float() are computed character by character.                     *)
(*  - A Python number is an exact rational [n, d]; float rounding error is *)
(*    not modelled.                                                        *)
(*  - user_data.csv is the sequence of its data rows; a missing file and a *)
(*    header-only file are both the empty sequence (the code reads both as *)
(*    no rows).                                                            *)
(***************************************************************************)
EXTENDS Integers, Sequences, FiniteSets, TLC

VARIABLES
    program_file,  \* the content of the current program's program.json
    program,       \* ProgressTracker.program
    log,           \* the data rows of the current program's user_data.csv
    today,         \* datetime.now().date()
    call,          \* the handler that ran last, with its request
    raised,        \* the exception that escaped it ("" for none)
    user_data,     \* its local user_data (empty if it reads none)
    weekly_info,   \* the local weekly_info of its compute_progress call
    progress,      \* its local progress
    weekly_progress, \* what its calculate_weekly_progress call returned
    breakdown,     \* what its calculate_detailed_breakdown call returned
    saved,         \* history: what each (date, item_id) was last saved with
    data_dir       \* the selection and the other programs' folders

vars == <<program_file, program, log, today, call, raised, user_data, weekly_info,
          progress, weekly_progress, breakdown, saved, data_dir>>

---------------------------------------------------------------------------
(* Exact rationals.                                                        *)

Abs(x) == IF x < 0 THEN -x ELSE x

RECURSIVE GCD(_, _)
GCD(a, b) == IF b = 0 THEN a ELSE GCD(b, a % b)

Rat(n, d) ==
    LET s == IF d < 0 THEN -1 ELSE 1
        g == GCD(Abs(n), Abs(d))
    IN  [n |-> (s * n) \div g, d |-> (s * d) \div g]

R(n) == [n |-> n, d |-> 1]
RAdd(a, b) == Rat(a.n * b.d + b.n * a.d, a.d * b.d)
RSub(a, b) == Rat(a.n * b.d - b.n * a.d, a.d * b.d)
RMul(a, b) == Rat(a.n * b.n, a.d * b.d)
RDiv(a, b) == Rat(a.n * b.d, a.d * b.n)
RGe(a, b) == a.n * b.d >= b.n * a.d
RLt(a, b) == a.n * b.d < b.n * a.d
RIsZero(a) == a.n = 0
RIsInteger(a) == a.d = 1

---------------------------------------------------------------------------
(* Python values: what a JSON request body can carry (int, float, bool,    *)
(* str, None) and what get_user_data produces (int, float, str).           *)

PyInt(i) == [t |-> "int", n |-> i, d |-> 1, s |-> <<>>]
PyFloat(n, d) == [t |-> "float", n |-> Rat(n, d).n, d |-> Rat(n, d).d, s |-> <<>>]
PyBool(b) == [t |-> "bool", n |-> IF b THEN 1 ELSE 0, d |-> 1, s |-> <<>>]
PyStr(s) == [t |-> "str", n |-> 0, d |-> 1, s |-> s]
PyNone == [t |-> "None", n |-> 0, d |-> 1, s |-> <<>>]

NumOf(v) == [n |-> v.n, d |-> v.d]

\* bool(v): the truth value the "if value" tests of the engine use.
Truthy(v) ==
    CASE v.t = "str" -> v.s # <<>>
      [] v.t = "None" -> FALSE
      [] OTHER -> v.n # 0

Digits == <<"0", "1", "2", "3", "4", "5", "6", "7", "8", "9">>
IsDigit(c) == \E k \in 1..10 : Digits[k] = c
DigitVal(c) == (CHOOSE k \in 1..10 : Digits[k] = c) - 1

RECURSIVE StrOfNat(_)
StrOfNat(n) ==
    IF n < 10 THEN <<Digits[n + 1]>>
    ELSE StrOfNat(n \div 10) \o <<Digits[(n % 10) + 1]>>

RECURSIVE FracDigits(_, _)
FracDigits(r, d) ==
    IF r = 0 THEN <<>>
    ELSE <<Digits[((r * 10) \div d) + 1]>> \o FracDigits((r * 10) % d, d)

\* repr of a float whose decimal expansion is finite and short (no exponent form).
StrOfFloat(n, d) ==
    LET a == Abs(n)
        frac == FracDigits(a % d, d)
    IN  (IF n < 0 THEN <<"-">> ELSE <<>>) \o StrOfNat(a \div d) \o <<".">>
        \o (IF frac = <<>> THEN <<"0">> ELSE frac)

\* str(value), as save_user_data_entry applies it to the request's value.
PyStrOf(v) ==
    CASE v.t = "int" -> (IF v.n < 0 THEN <<"-">> ELSE <<>>) \o StrOfNat(Abs(v.n))
      [] v.t = "float" -> StrOfFloat(v.n, v.d)
      [] v.t = "bool" -> IF v.n = 1 THEN <<"T", "r", "u", "e">>
                         ELSE <<"F", "a", "l", "s", "e">>
      [] v.t = "None" -> <<"N", "o", "n", "e">>
      [] OTHER -> v.s

RECURSIVE LStrip(_)
LStrip(s) == IF s # <<>> /\ Head(s) = " " THEN LStrip(Tail(s)) ELSE s

RECURSIVE RStrip(_)
RStrip(s) ==
    IF s # <<>> /\ s[Len(s)] = " " THEN RStrip(SubSeq(s, 1, Len(s) - 1)) ELSE s

RECURSIVE NatOf(_)
NatOf(s) ==
    IF s = <<>> THEN 0
    ELSE NatOf(SubSeq(s, 1, Len(s) - 1)) * 10 + DigitVal(s[Len(s)])

RECURSIVE Pow10(_)
Pow10(k) == IF k = 0 THEN 1 ELSE 10 * Pow10(k - 1)

AllDigits(s) == \A k \in 1..Len(s) : IsDigit(s[k])

\* The number of leading digits of s.
RECURSIVE DigitPrefix(_)
DigitPrefix(s) ==
    IF s # <<>> /\ IsDigit(Head(s)) THEN 1 + DigitPrefix(Tail(s)) ELSE 0

\* float(s) for a str: surrounding blanks, a sign, digits with an optional
\* decimal point.  [ok |-> FALSE] is ValueError.  (Exponents, underscores,
\* "inf" and "nan" are outside the alphabet of the modelled inputs.)
ParseFloat(s) ==
    LET t == RStrip(LStrip(s))
        signed == t # <<>> /\ Head(t) \in {"+", "-"}
        sgn == IF signed /\ Head(t) = "-" THEN -1 ELSE 1
        u == IF signed THEN Tail(t) ELSE t
        i == DigitPrefix(u)
        ip == SubSeq(u, 1, i)
        dotted == i < Len(u) /\ u[i + 1] = "."
        fp == IF dotted THEN SubSeq(u, i + 2, Len(u)) ELSE <<>>
        ok == /\ i + Len(fp) >= 1
              /\ AllDigits(fp)
              /\ (dotted \/ i = Len(u))
    IN  IF ok
        THEN [ok |-> TRUE,
              v |-> Rat(sgn * (NatOf(ip) * Pow10(Len(fp)) + NatOf(fp)), Pow10(Len(fp)))]
        ELSE [ok |-> FALSE, v |-> R(0)]

\* int(s) for a str: surrounding blanks, a sign, digits.
ParseInt(s) ==
    LET t == RStrip(LStrip(s))
        signed == t # <<>> /\ Head(t) \in {"+", "-"}
        sgn == IF signed /\ Head(t) = "-" THEN -1 ELSE 1
        u == IF signed THEN Tail(t) ELSE t
    IN  IF u # <<>> /\ AllDigits(u)
        THEN [ok |-> TRUE, v |-> sgn * NatOf(u)]
        ELSE [ok |-> FALSE, v |-> 0]

\* int(value): [exc |-> ""] with the integer, or the exception raised.
PyIntOf(v) ==
    CASE v.t = "str" ->
            IF ParseInt(v.s).ok THEN [exc |-> "", v |-> ParseInt(v.s).v]
            ELSE [exc |-> "ValueError", v |-> 0]
      [] v.t = "None" -> [exc |-> "TypeError", v |-> 0]
      [] OTHER ->  \* int, bool, float: truncation toward zero
            [exc |-> "", v |-> (IF v.n < 0 THEN -1 ELSE 1) * (Abs(v.n) \div v.d)]

\* "float(val) if val else 0" inside try/except (ValueError, TypeError): 0 on failure.
FloatOrZero(v) ==
    IF ~Truthy(v) THEN R(0)
    ELSE CASE v.t = "str" -> ParseFloat(v.s).v
           [] v.t = "None" -> R(0)
           [] OTHER -> NumOf(v)

\* The value conversion of get_user_data: float(value), then int if whole.
ConvertValue(s) ==
    LET p == ParseFloat(s)
    IN  IF ~p.ok THEN PyStr(s)
        ELSE IF RIsInteger(p.v) THEN PyInt(p.v.n)
        ELSE PyFloat(p.v.n, p.v.d)

---------------------------------------------------------------------------
(* The entry store: user_data.csv and its two accessors.                   *)

Row(date, item_id, type, value) ==
    [date |-> date, item_id |-> item_id, type |-> type, value |-> value]

\* The dict get_user_data builds: user_data[date][item_id] = {type, value}.
\* dates is the dict's iteration order (each date where it first appears in
\* the file); at maps <<date, item_id>> to the inner dict's entry.
EmptyUserData == [dates |-> <<>>, at |-> [k \in {} |-> 0]]

HasDate(ud, date) == \E k \in 1..Len(ud.dates) : ud.dates[k] = date
HasEntry(ud, date, id) == <<date, id>> \in DOMAIN ud.at
Entry(ud, date, id) == ud.at[<<date, id>>]

\* One pass of the DictReader loop of get_user_data.
ReadRow(ud, row) ==
    LET key == <<row.date, row.item_id>>
        e == [type |-> row.type, value |-> ConvertValue(row.value)]
    IN  [dates |-> IF HasDate(ud, row.date) THEN ud.dates
                   ELSE Append(ud.dates, row.date),
         at |-> [k \in DOMAIN ud.at \cup {key} |-> IF k = key THEN e ELSE ud.at[k]]]

RECURSIVE ReadRows(_, _)
ReadRows(ud, rows) ==
    IF rows = <<>> THEN ud ELSE ReadRows(ReadRow(ud, Head(rows)), Tail(rows))

get_user_data(rows) == ReadRows(EmptyUserData, rows)

\* Mutant of FirstMatch: the search never finds the row.
FirstMatch_never(rows, date, item_id) == 0

\* The index of the first row of (date, item_id), 0 if there is none: the
\* "for row in existing_data ... break" search.
FirstMatch(rows, date, item_id) ==
    IF \E k \in 1..Len(rows) : rows[k].date = date /\ rows[k].item_id = item_id
    THEN CHOOSE k \in 1..Len(rows) :
            /\ rows[k].date = date /\ rows[k].item_id = item_id
            /\ \A j \in 1..(k - 1) : ~(rows[j].date = date /\ rows[j].item_id = item_id)
    ELSE 0

\* Mutant of WithoutItem: only the first row of the item is dropped.
WithoutItem_first(rows, item_id) ==
    IF \E k \in 1..Len(rows) : rows[k].item_id = item_id
    THEN LET k == CHOOSE j \in 1..Len(rows) :
                    /\ rows[j].item_id = item_id
                    /\ \A i \in 1..(j - 1) : rows[i].item_id # item_id
         IN  SubSeq(rows, 1, k - 1) \o SubSeq(rows, k + 1, Len(rows))
    ELSE rows

RECURSIVE WithoutItem(_, _)
WithoutItem(rows, item_id) ==
    IF rows = <<>> THEN <<>>
    ELSE IF Head(rows).item_id # item_id
         THEN <<Head(rows)>> \o WithoutItem(Tail(rows), item_id)
         ELSE WithoutItem(Tail(rows), item_id)

\* The test of "Special handling for undoing tasks": item_type == "task" and
\* int(value) == 0.  int(value) is evaluated only for a task and may raise.
UndoTest(item_type, value) ==
    IF item_type # "task" THEN [exc |-> "", undo |-> FALSE]
    ELSE [exc |-> PyIntOf(value).exc,
          undo |-> PyIntOf(value).exc = "" /\ PyIntOf(value).v = 0]

\* The row an update leaves at an existing (date, item_id): only its value changes.
UpdatedRow(row, item_type, value) == [row EXCEPT !.value = PyStrOf(value)]

\* Mutant of save_user_data_entry: a stored entry replaces every row of its
\* item, whatever the date.
save_user_data_entry_one(rows, date, item_id, item_type, value) ==
    LET u == UndoTest(item_type, value)
    IN  IF u.exc # "" THEN [exc |-> u.exc, rows |-> rows]
        ELSE IF u.undo THEN [exc |-> "", rows |-> WithoutItem(rows, item_id)]
        ELSE [exc |-> "",
              rows |-> Append(WithoutItem(rows, item_id),
                              Row(date, item_id, item_type, PyStrOf(value)))]

\* save_user_data_entry: the rows of the file after the call, and the
\* exception it raised ("" for none; the file is not written then).
save_user_data_entry(rows, date, item_id, item_type, value) ==
    LET u == UndoTest(item_type, value)
        k == FirstMatch(rows, date, item_id)
    IN  IF u.exc # "" THEN [exc |-> u.exc, rows |-> rows]
        ELSE IF u.undo THEN [exc |-> "", rows |-> WithoutItem(rows, item_id)]
        ELSE IF k # 0
             THEN [exc |-> "",
                   rows |-> [rows EXCEPT ![k] = UpdatedRow(rows[k], item_type, value)]]
        ELSE [exc |-> "",
              rows |-> Append(rows, Row(date, item_id, item_type, PyStrOf(value)))]

---------------------------------------------------------------------------
(* The program definition.                                                 *)

\* A date field of program.json: a well-formed "YYYY-MM-DD" (day), the empty
\* string, a string strptime rejects, or null.
Ymd(day) == [k |-> "ymd", day |-> day]
EmptyDate == [k |-> "empty", day |-> 0]
MalformedDate == [k |-> "malformed", day |-> 0]
NullDate == [k |-> "None", day |-> 0]

\* datetime.strptime(s, "%Y-%m-%d").date(): the day, or the exception.
strptime(ds) ==
    CASE ds.k = "ymd" -> [exc |-> "", day |-> ds.day]
      [] ds.k = "None" -> [exc |-> "TypeError", day |-> 0]
      [] OTHER -> [exc |-> "ValueError", day |-> 0]

\* "not self.program.start_date"
DateFalsy(ds) == ds.k \in {"empty", "None"}

Objective(id, type, frequency, scoring, start_value, target_value, weight, importance) ==
    [id |-> id, type |-> type, frequency |-> frequency, scoring |-> scoring,
     start_value |-> start_value, target_value |-> target_value,
     weight |-> weight, importance |-> importance]

Task(id, weight) == [id |-> id, weight |-> weight]

Program(start_date, end_date, objectives, tasks) ==
    [k |-> "Program", start_date |-> start_date, end_date |-> end_date,
     objectives |-> objectives, tasks |-> tasks]

\* self.program = None
NoProgram ==
    [k |-> "None", start_date |-> NullDate, end_date |-> NullDate,
     objectives |-> <<>>, tasks |-> <<>>]

weekday(day) == day % 7

_get_importance_multiplier(importance) ==
    CASE importance = "indispensable" -> 3
      [] importance = "important" -> 2
      [] importance = "bien" -> 1
      [] OTHER -> 1

\* Mutant of _get_weekly_boundaries: a Monday start is moved to the next Monday.
_get_weekly_boundaries_next(start_date, end_date) ==
    LET first_monday == start_date + (7 - weekday(start_date))
        last_sunday ==
            IF weekday(end_date) = 6 THEN end_date
            ELSE end_date - (weekday(end_date) + 1)
    IN  [first_monday |-> first_monday,
         last_sunday |-> last_sunday,
         num_complete_weeks |->
            IF last_sunday < first_monday THEN 0
            ELSE ((last_sunday - first_monday) + 1) \div 7]

_get_weekly_boundaries(start_date, end_date) ==
    LET first_monday ==
            IF weekday(start_date) = 0 THEN start_date
            ELSE start_date + (7 - weekday(start_date))
        last_sunday ==
            IF weekday(end_date) = 6 THEN end_date
            ELSE end_date - (weekday(end_date) + 1)
    IN  [first_monday |-> first_monday,
         last_sunday |-> last_sunday,
         num_complete_weeks |->
            IF last_sunday < first_monday THEN 0
            ELSE ((last_sunday - first_monday) + 1) \div 7]

\* get_objective_max_points: the total possible points of one objective.
get_objective_max_points(prog, objective) ==
    IF prog.k = "None" \/ DateFalsy(prog.start_date) \/ DateFalsy(prog.end_date)
    THEN 0
    ELSE IF strptime(prog.start_date).exc # "" \/ strptime(prog.end_date).exc # ""
    THEN 0
    ELSE LET start_date == strptime(prog.start_date).day
             end_date == strptime(prog.end_date).day
             multiplier == _get_importance_multiplier(objective.importance)
         IN  CASE objective.frequency = "daily" ->
                    objective.weight * ((end_date - start_date) + 1) * multiplier
               [] objective.frequency = "weekly" ->
                    objective.weight
                      * _get_weekly_boundaries(start_date, end_date).num_complete_weeks
                      * multiplier
               [] objective.frequency = "program" -> objective.weight * multiplier
               [] OTHER -> 0

---------------------------------------------------------------------------
(* The per-frequency calculators.  Each returns [exc, v]: the points, or   *)
(* the exception that escapes the method.                                  *)

Pts(v) == [exc |-> "", v |-> v]
Raise(e) == [exc |-> e, v |-> R(0)]

\* The loop of _compute_daily_objective_points over the dates of user_data
\* from position k on, with the running total; "unsupported" is the early
\* "return 0" of a non-checkbox objective.
RECURSIVE DailyLoop(_, _, _, _)
DailyLoop(objective, ud, k, total) ==
    IF k > Len(ud.dates) THEN [unsupported |-> FALSE, total |-> total]
    ELSE IF /\ HasEntry(ud, ud.dates[k], objective.id)
            /\ Truthy(Entry(ud, ud.dates[k], objective.id).value)
         THEN IF objective.type = "checkbox"
              THEN DailyLoop(objective, ud, k + 1, total + objective.weight)
              ELSE [unsupported |-> TRUE, total |-> 0]
         ELSE DailyLoop(objective, ud, k + 1, total)

\* Mutant of DailyMultiplied: the importance multiplier is left out.
DailyMultiplied_none(total, objective) == total

DailyMultiplied(total, objective) ==
    total * _get_importance_multiplier(objective.importance)

_compute_daily_objective_points(objective, ud) ==
    LET l == DailyLoop(objective, ud, 1, 0)
    IN  IF l.unsupported THEN Pts(R(0))
        ELSE Pts(R(DailyMultiplied(l.total, objective)))

\* Mutant of InWeek: a date outside the window goes to the nearest week.
InWeek_nearest(date, wb, week_index) ==
    LET i == (date - wb.first_monday) \div 7
    IN  week_index = (IF i < 0 THEN 0
                      ELSE IF i >= wb.num_complete_weeks
                      THEN wb.num_complete_weeks - 1 ELSE i)

\* "if date >= first_monday and date <= last_sunday: week_index = ...": the
\* date's entry is appended to weeks[week_index].
InWeek(date, wb, week_index) ==
    /\ date >= wb.first_monday
    /\ date <= wb.last_sunday
    /\ (date - wb.first_monday) \div 7 = week_index

\* weeks[week_index]: the values of the objective's entries that fall in the
\* window, in the order of user_data's dates.
RECURSIVE WeekData(_, _, _, _, _)
WeekData(objective, ud, wb, week_index, k) ==
    IF k > Len(ud.dates) THEN <<>>
    ELSE LET date == ud.dates[k]
             here == /\ HasEntry(ud, date, objective.id)
                     /\ InWeek(date, wb, week_index)
         IN  (IF here THEN <<Entry(ud, date, objective.id).value>> ELSE <<>>)
             \o WeekData(objective, ud, wb, week_index, k + 1)

RECURSIVE SumNumeric(_)
SumNumeric(values) ==
    IF values = <<>> THEN R(0)
    ELSE RAdd(FloatOrZero(Head(values)), SumNumeric(Tail(values)))

\* Mutant of WeekValue: a cumulative week counts its entries.
WeekValue_count(objective, week_data) ==
    CASE objective.type \in {"checkbox", "cumulative"} ->
            [ok |-> TRUE, v |-> R(Len(week_data))]
      [] OTHER -> [ok |-> FALSE, v |-> R(0)]

\* "Compute week value": [ok, v]; not ok is the unsupported type.
WeekValue(objective, week_data) ==
    CASE objective.type = "checkbox" -> [ok |-> TRUE, v |-> R(Len(week_data))]
      [] objective.type = "cumulative" -> [ok |-> TRUE, v |-> SumNumeric(week_data)]
      [] OTHER -> [ok |-> FALSE, v |-> R(0)]

\* Mutant of WeekScore: a binary week must exceed its target.
WeekScore_strict(objective, week_value) ==
    CASE objective.scoring = "binary" ->
            [exc |-> "", ret0 |-> FALSE,
             v |-> IF RLt(R(objective.target_value), week_value)
                   THEN R(objective.weight) ELSE R(0)]
      [] objective.scoring = "proportional" ->
            IF objective.target_value = 0
            THEN [exc |-> "ZeroDivisionError", ret0 |-> FALSE, v |-> R(0)]
            ELSE [exc |-> "", ret0 |-> FALSE,
                  v |-> RDiv(RMul(R(objective.weight), week_value),
                             R(objective.target_value))]
      [] OTHER -> [exc |-> "", ret0 |-> TRUE, v |-> R(0)]

\* "Apply scoring method" of one week: what is added to total_points
\* ([ret0 |-> TRUE]: the early "return 0" of an unknown scoring).
WeekScore(objective, week_value) ==
    CASE objective.scoring = "binary" ->
            [exc |-> "", ret0 |-> FALSE,
             v |-> IF RGe(week_value, R(objective.target_value))
                   THEN R(objective.weight) ELSE R(0)]
      [] objective.scoring = "proportional" ->
            IF objective.target_value = 0
            THEN [exc |-> "ZeroDivisionError", ret0 |-> FALSE, v |-> R(0)]
            ELSE [exc |-> "", ret0 |-> FALSE,
                  v |-> RDiv(RMul(R(objective.weight), week_value),
                             R(objective.target_value))]
      [] OTHER -> [exc |-> "", ret0 |-> TRUE, v |-> R(0)]

\* The loop "for week_index, week_data in weeks.items()" from week_index on.
RECURSIVE WeeksLoop(_, _, _, _, _)
WeeksLoop(objective, ud, wb, week_index, total_points) ==
    IF week_index >= wb.num_complete_weeks
    THEN Pts(RMul(total_points, R(_get_importance_multiplier(objective.importance))))
    ELSE LET wv == WeekValue(objective, WeekData(objective, ud, wb, week_index, 1))
             sc == WeekScore(objective, wv.v)
         IN  IF ~wv.ok THEN Pts(R(0))
             ELSE IF sc.exc # "" THEN Raise(sc.exc)
             ELSE IF sc.ret0 THEN Pts(R(0))
             ELSE WeeksLoop(objective, ud, wb, week_index + 1, RAdd(total_points, sc.v))

_compute_weekly_objective_points(prog, objective, ud) ==
    IF prog.k = "None" \/ DateFalsy(prog.start_date) \/ DateFalsy(prog.end_date)
    THEN Pts(R(0))
    ELSE IF strptime(prog.start_date).exc = "ValueError" THEN Pts(R(0))
    ELSE IF strptime(prog.start_date).exc # "" THEN Raise(strptime(prog.start_date).exc)
    ELSE IF strptime(prog.end_date).exc = "ValueError" THEN Pts(R(0))
    ELSE IF strptime(prog.end_date).exc # "" THEN Raise(strptime(prog.end_date).exc)
    ELSE LET wb == _get_weekly_boundaries(strptime(prog.start_date).day,
                                          strptime(prog.end_date).day)
         IN  IF wb.num_complete_weeks = 0 THEN Pts(R(0))
             ELSE WeeksLoop(objective, ud, wb, 0, R(0))

\* objective_data: the objective's values in the order of user_data's dates.
\* Mutant of ObjectiveData: the entries are taken in the order of their dates.
ObjectiveData_bydate(objective, ud, k) ==
    LET days == {ud.dates[j] : j \in {i \in k..Len(ud.dates) :
                                        HasEntry(ud, ud.dates[i], objective.id)}}
    IN  [i \in 1..Cardinality(days) |->
            Entry(ud, CHOOSE d \in days :
                          Cardinality({e \in days : e < d}) = i - 1,
                  objective.id).value]

RECURSIVE ObjectiveData(_, _, _)
ObjectiveData(objective, ud, k) ==
    IF k > Len(ud.dates) THEN <<>>
    ELSE (IF HasEntry(ud, ud.dates[k], objective.id)
          THEN <<Entry(ud, ud.dates[k], objective.id).value>> ELSE <<>>)
         \o ObjectiveData(objective, ud, k + 1)

\* Mutant of ProgramValue: a checkbox objective counts its truthy entries only.
ProgramValue_truthy(objective, objective_data) ==
    CASE objective.type = "checkbox" ->
            [ok |-> TRUE,
             v |-> R(Len(SelectSeq(objective_data, LAMBDA x : Truthy(x))))]
      [] objective.type = "cumulative" -> [ok |-> TRUE, v |-> SumNumeric(objective_data)]
      [] objective.type = "latest" ->
            [ok |-> TRUE,
             v |-> IF objective_data = <<>> THEN R(0)
                   ELSE FloatOrZero(objective_data[Len(objective_data)])]
      [] OTHER -> [ok |-> FALSE, v |-> R(0)]

\* "Compute value" of a program objective: [ok, v]; not ok is the unknown type.
ProgramValue(objective, objective_data) ==
    CASE objective.type = "checkbox" -> [ok |-> TRUE, v |-> R(Len(objective_data))]
      [] objective.type = "cumulative" -> [ok |-> TRUE, v |-> SumNumeric(objective_data)]
      [] objective.type = "latest" ->
            [ok |-> TRUE,
             v |-> IF objective_data = <<>> THEN R(0)
                   ELSE FloatOrZero(objective_data[Len(objective_data)])]
      [] OTHER -> [ok |-> FALSE, v |-> R(0)]

\* Mutant of ProgramScore: the proportional fraction is clamped to [0, 1].
ProgramScore_clamped(objective, value) ==
    LET fraction ==
            IF objective.start_value > objective.target_value
            THEN RDiv(RSub(R(objective.start_value), value),
                      R(objective.start_value - objective.target_value))
            ELSE IF objective.target_value = 0 THEN R(0)
            ELSE RDiv(value, R(objective.target_value))
        clamped == IF RLt(fraction, R(0)) THEN R(0)
                   ELSE IF RLt(R(1), fraction) THEN R(1) ELSE fraction
    IN  CASE objective.scoring = "binary" ->
                [exc |-> "", ret0 |-> FALSE,
                 v |-> IF RGe(value, R(objective.target_value))
                       THEN R(objective.weight) ELSE R(0)]
          [] objective.scoring = "proportional" ->
                [exc |-> "", ret0 |-> FALSE, v |-> RMul(R(objective.weight), clamped)]
          [] OTHER -> [exc |-> "", ret0 |-> TRUE, v |-> R(0)]

\* "Apply scoring method" of a program objective.
ProgramScore(objective, value) ==
    CASE objective.scoring = "binary" ->
            [exc |-> "", ret0 |-> FALSE,
             v |-> IF RGe(value, R(objective.target_value))
                   THEN R(objective.weight) ELSE R(0)]
      [] objective.scoring = "proportional" ->
            IF objective.start_value > objective.target_value
            THEN [exc |-> "", ret0 |-> FALSE,
                  v |-> RMul(R(objective.weight),
                             RDiv(RSub(R(objective.start_value), value),
                                  R(objective.start_value - objective.target_value)))]
            ELSE IF objective.target_value = 0
            THEN [exc |-> "ZeroDivisionError", ret0 |-> FALSE, v |-> R(0)]
            ELSE [exc |-> "", ret0 |-> FALSE,
                  v |-> RDiv(RMul(R(objective.weight), value),
                             R(objective.target_value))]
      [] OTHER -> [exc |-> "", ret0 |-> TRUE, v |-> R(0)]

\* Mutant of _compute_program_objective_points: no importance multiplier.
_compute_program_objective_points_plain(prog, objective, ud) ==
    IF strptime(prog.start_date).exc # "" THEN Raise(strptime(prog.start_date).exc)
    ELSE IF strptime(prog.end_date).exc # "" THEN Raise(strptime(prog.end_date).exc)
    ELSE LET pv == ProgramValue(objective, ObjectiveData(objective, ud, 1))
             sc == ProgramScore(objective, pv.v)
         IN  IF ~pv.ok THEN Pts(R(0))
             ELSE IF sc.exc # "" THEN Raise(sc.exc)
             ELSE IF sc.ret0 THEN Pts(R(0))
             ELSE Pts(sc.v)

_compute_program_objective_points(prog, objective, ud) ==
    IF strptime(prog.start_date).exc # "" THEN Raise(strptime(prog.start_date).exc)
    ELSE IF strptime(prog.end_date).exc # "" THEN Raise(strptime(prog.end_date).exc)
    ELSE LET pv == ProgramValue(objective, ObjectiveData(objective, ud, 1))
             sc == ProgramScore(objective, pv.v)
         IN  IF ~pv.ok THEN Pts(R(0))
             ELSE IF sc.exc # "" THEN Raise(sc.exc)
             ELSE IF sc.ret0 THEN Pts(R(0))
             ELSE Pts(RMul(sc.v, R(_get_importance_multiplier(objective.importance))))

\* Mutant of _compute_objective_points: an unknown frequency raises.
_compute_objective_points_strict(prog, objective, ud) ==
    CASE objective.frequency = "daily" -> _compute_daily_objective_points(objective, ud)
      [] objective.frequency = "weekly" ->
            _compute_weekly_objective_points(prog, objective, ud)
      [] objective.frequency = "program" ->
            _compute_program_objective_points(prog, objective, ud)
      [] OTHER -> Raise("ValueError")

_compute_objective_points(prog, objective, ud) ==
    CASE objective.frequency = "daily" -> _compute_daily_objective_points(objective, ud)
      [] objective.frequency = "weekly" ->
            _compute_weekly_objective_points(prog, objective, ud)
      [] objective.frequency = "program" ->
            _compute_program_objective_points(prog, objective, ud)
      [] OTHER -> Pts(R(0))

---------------------------------------------------------------------------
(* The progress aggregator.                                                *)

\* Mutant of ElapsedDays: the first day of the program counts as day 0.
ElapsedDays_from0(start_date, end_date, now) ==
    IF now < start_date THEN 0
    ELSE IF now > end_date THEN (end_date - start_date) + 1
    ELSE now - start_date

\* elapsed_days of compute_progress.
ElapsedDays(start_date, end_date, now) ==
    IF now < start_date THEN 0
    ELSE IF now > end_date THEN (end_date - start_date) + 1
    ELSE (now - start_date) + 1

\* Mutant of ElapsedCompleteWeeks: the weeks since first_monday, with no cap
\* at num_complete_weeks.
ElapsedCompleteWeeks_uncapped(wb, now) ==
    IF now >= wb.first_monday THEN ((now - wb.first_monday) + 1) \div 7 ELSE 0

\* elapsed_complete_weeks of a weekly objective's expected points.
ElapsedCompleteWeeks(wb, now) ==
    IF now >= wb.first_monday
    THEN IF now > wb.last_sunday THEN wb.num_complete_weeks
         ELSE LET e == ((now - wb.first_monday) + 1) \div 7
              IN  IF e < wb.num_complete_weeks THEN e ELSE wb.num_complete_weeks
    ELSE 0

\* elapsed_days / total_days: ZeroDivisionError when total_days is 0.
ElapsedFraction(elapsed_days, total_days) ==
    IF total_days = 0 THEN Raise("ZeroDivisionError")
    ELSE Pts(Rat(elapsed_days, total_days))

\* Mutant of ObjectiveTotals: a weekly objective is expected from the Monday
\* its week starts.
ObjectiveTotals_started(obj, total_days, elapsed_days, wb, now) ==
    LET multiplier == _get_importance_multiplier(obj.importance)
        frac == ElapsedFraction(elapsed_days, total_days)
    IN  CASE obj.frequency = "daily" ->
                [exc |-> "",
                 total |-> R(obj.weight * total_days * multiplier),
                 expected |-> R(obj.weight * elapsed_days * multiplier)]
          [] obj.frequency = "weekly" ->
                [exc |-> "",
                 total |-> R(obj.weight * wb.num_complete_weeks * multiplier),
                 expected |->
                    IF wb.num_complete_weeks = 0 THEN R(0)
                    ELSE R(obj.weight * ElapsedCompleteWeeks(wb, now + 6) * multiplier)]
          [] obj.frequency = "program" ->
                [exc |-> frac.exc,
                 total |-> R(obj.weight * multiplier),
                 expected |-> RMul(RMul(R(obj.weight), frac.v), R(multiplier))]
          [] OTHER -> [exc |-> "", total |-> R(0), expected |-> R(0)]

\* obj_total_points and obj_expected_points of one objective: [exc, total, expected].
ObjectiveTotals(obj, total_days, elapsed_days, wb, now) ==
    LET multiplier == _get_importance_multiplier(obj.importance)
        frac == ElapsedFraction(elapsed_days, total_days)
    IN  CASE obj.frequency = "daily" ->
                [exc |-> "",
                 total |-> R(obj.weight * total_days * multiplier),
                 expected |-> R(obj.weight * elapsed_days * multiplier)]
          [] obj.frequency = "weekly" ->
                [exc |-> "",
                 total |-> R(obj.weight * wb.num_complete_weeks * multiplier),
                 expected |->
                    IF wb.num_complete_weeks = 0 THEN R(0)
                    ELSE R(obj.weight * ElapsedCompleteWeeks(wb, now) * multiplier)]
          [] obj.frequency = "program" ->
                [exc |-> frac.exc,
                 total |-> R(obj.weight * multiplier),
                 expected |-> RMul(RMul(R(obj.weight), frac.v), R(multiplier))]
          [] OTHER -> [exc |-> "", total |-> R(0), expected |-> R(0)]

Acc(exc, current, total, expected) ==
    [exc |-> exc, current_points |-> current, total_points |-> total,
     expected_points |-> expected]

\* The locals compute_progress derives from the parsed dates and the clock.
Timing(start_date, end_date, now) ==
    [start_date |-> start_date,
     end_date |-> end_date,
     now |-> now,
     total_days |-> (end_date - start_date) + 1,
     elapsed_days |-> ElapsedDays(start_date, end_date, now),
     weekly_info |-> _get_weekly_boundaries(start_date, end_date)]

\* One pass of "Process objectives": the sums after objective obj.
AddObjective(prog, ud, tm, obj, acc) ==
    LET t == ObjectiveTotals(obj, tm.total_days, tm.elapsed_days, tm.weekly_info, tm.now)
        c == _compute_objective_points(prog, obj, ud)
    IN  IF t.exc # "" THEN [acc EXCEPT !.exc = t.exc]
        ELSE IF c.exc # "" THEN [acc EXCEPT !.exc = c.exc]
        ELSE Acc("", RAdd(acc.current_points, c.v),
                 RAdd(acc.total_points, t.total),
                 RAdd(acc.expected_points, t.expected))

\* "Process objectives": the loop from objective k on.
RECURSIVE ObjectivesLoop(_, _, _, _, _)
ObjectivesLoop(prog, ud, tm, k, acc) ==
    IF k > Len(prog.objectives) \/ acc.exc # "" THEN acc
    ELSE ObjectivesLoop(prog, ud, tm, k + 1,
                        AddObjective(prog, ud, tm, prog.objectives[k], acc))

\* "Check if task is completed": some date holds a truthy value for the task.
TaskCompleted(task, ud) ==
    \E k \in 1..Len(ud.dates) :
        /\ HasEntry(ud, ud.dates[k], task.id)
        /\ Truthy(Entry(ud, ud.dates[k], task.id).value)

\* What a completed task adds to current_points.
\* Mutant of TaskPoints: the weight is earned once per date holding a truthy value.
TaskPoints_each(task, ud) ==
    task.weight
      * Cardinality({k \in 1..Len(ud.dates) :
                        /\ HasEntry(ud, ud.dates[k], task.id)
                        /\ Truthy(Entry(ud, ud.dates[k], task.id).value)})

TaskPoints(task, ud) == IF TaskCompleted(task, ud) THEN task.weight ELSE 0

\* Mutant of AddTask: the task's weight is left out of total_points.
AddTask_untotalled(ud, tm, task, acc) ==
    LET frac == ElapsedFraction(tm.elapsed_days, tm.total_days)
    IN  IF frac.exc # "" THEN [acc EXCEPT !.exc = frac.exc]
        ELSE Acc("", RAdd(acc.current_points, R(TaskPoints(task, ud))),
                 acc.total_points,
                 RAdd(acc.expected_points, RMul(R(task.weight), frac.v)))

\* One pass of "Process tasks": the sums after task.
AddTask(ud, tm, task, acc) ==
    LET frac == ElapsedFraction(tm.elapsed_days, tm.total_days)
    IN  IF frac.exc # "" THEN [acc EXCEPT !.exc = frac.exc]
        ELSE Acc("", RAdd(acc.current_points, R(TaskPoints(task, ud))),
                 RAdd(acc.total_points, R(task.weight)),
                 RAdd(acc.expected_points, RMul(R(task.weight), frac.v)))

\* "Process tasks": the loop from task k on.
RECURSIVE TasksLoop(_, _, _, _, _)
TasksLoop(prog, ud, tm, k, acc) ==
    IF k > Len(prog.tasks) \/ acc.exc # "" THEN acc
    ELSE TasksLoop(prog, ud, tm, k + 1, AddTask(ud, tm, prog.tasks[k], acc))

\* round(x, 1) in tenths: to the nearest tenth, a tie to the even one.
RoundTenths(x) ==
    LET scaled == 10 * x.n
        q == scaled \div x.d
        rem2 == 2 * (scaled - q * x.d)
    IN  IF rem2 < x.d THEN q
        ELSE IF rem2 > x.d THEN q + 1
        ELSE IF q % 2 = 0 THEN q ELSE q + 1

\* current_points / total_points * 100, or 0 when total_points is not positive.
Percentage(points, total_points) ==
    IF total_points.n > 0 THEN RMul(RDiv(points, total_points), R(100)) ELSE R(0)

\* Mutant of IsOnTrack: the reported (rounded) percentages are compared.
IsOnTrack_rounded(current_progress, expected_progress) ==
    RoundTenths(current_progress) >= RoundTenths(expected_progress)

\* is_on_track of the returned dict.
IsOnTrack(current_progress, expected_progress) ==
    RGe(current_progress, expected_progress)

\* What compute_progress returns: kind "dict" with the dict's keys (and the
\* local expected_points), kind "None", or kind "raise" with the exception.
ProgressNone ==
    [kind |-> "None", exc |-> "", current_points |-> R(0), total_points |-> R(0),
     expected_points |-> R(0), current_progress |-> 0, expected_progress |-> 0,
     elapsed_days |-> 0, total_days |-> 0, is_on_track |-> FALSE]

ProgressRaise(e) == [ProgressNone EXCEPT !.kind = "raise", !.exc = e]

\* "Compute percentages" and the returned dict.
ProgressDict(acc, tm) ==
    IF acc.exc # "" THEN ProgressRaise(acc.exc)
    ELSE [kind |-> "dict", exc |-> "",
          current_points |-> acc.current_points,
          total_points |-> acc.total_points,
          expected_points |-> acc.expected_points,
          current_progress |->
              RoundTenths(Percentage(acc.current_points, acc.total_points)),
          expected_progress |->
              RoundTenths(Percentage(acc.expected_points, acc.total_points)),
          elapsed_days |-> tm.elapsed_days,
          total_days |-> tm.total_days,
          is_on_track |->
              IsOnTrack(Percentage(acc.current_points, acc.total_points),
                        Percentage(acc.expected_points, acc.total_points))]

\* The sums once the dates have parsed: objectives first, then tasks.
ProgressSums(prog, ud, tm) ==
    TasksLoop(prog, ud, tm, 1, ObjectivesLoop(prog, ud, tm, 1, Acc("", R(0), R(0), R(0))))

\* The exception or early "return None" of the date parsing: "" to go on.
DatesOutcome(prog) ==
    IF prog.k = "None" THEN "None"
    ELSE IF strptime(prog.start_date).exc = "ValueError" THEN "None"
    ELSE IF strptime(prog.start_date).exc # "" THEN strptime(prog.start_date).exc
    ELSE IF strptime(prog.end_date).exc = "ValueError" THEN "None"
    ELSE strptime(prog.end_date).exc

compute_progress(prog, ud, now) ==
    IF DatesOutcome(prog) = "None" THEN ProgressNone
    ELSE IF DatesOutcome(prog) # "" THEN ProgressRaise(DatesOutcome(prog))
    ELSE ProgressDict(
            ProgressSums(prog, ud,
                Timing(strptime(prog.start_date).day, strptime(prog.end_date).day, now)),
            Timing(strptime(prog.start_date).day, strptime(prog.end_date).day, now))

---------------------------------------------------------------------------
(* The per-week progress of calculate_weekly_progress.                     *)

WeekResult(exc, earned_points, total_points) ==
    [exc |-> exc, earned_points |-> earned_points, total_points |-> total_points]

\* The first loop of calculate_week_progress, over the daily objectives and
\* their seven days: what it adds to earned_points.
DailyWeekEarned(obj, ud, week_start) ==
    obj.weight
      * Cardinality({day_offset \in 0..6 :
                        /\ HasEntry(ud, week_start + day_offset, obj.id)
                        /\ Truthy(Entry(ud, week_start + day_offset, obj.id).value)})

\* "Count achievements in this week" from day_offset on: [exc, v].
\* "week_achievements += value" raises TypeError on a str.
RECURSIVE WeekAchievements(_, _, _, _, _)
WeekAchievements(obj, ud, week_start, day_offset, week_achievements) ==
    IF day_offset > 6 THEN [exc |-> "", v |-> week_achievements]
    ELSE IF ~HasEntry(ud, week_start + day_offset, obj.id)
    THEN WeekAchievements(obj, ud, week_start, day_offset + 1, week_achievements)
    ELSE IF /\ obj.type = "checkbox"
            /\ Truthy(Entry(ud, week_start + day_offset, obj.id).value)
    THEN WeekAchievements(obj, ud, week_start, day_offset + 1,
                          RAdd(week_achievements, R(1)))
    ELSE IF obj.type = "cumulative"
    THEN IF Entry(ud, week_start + day_offset, obj.id).value.t \in {"str", "None"}
         THEN [exc |-> "TypeError", v |-> week_achievements]
         ELSE WeekAchievements(obj, ud, week_start, day_offset + 1,
                  RAdd(week_achievements,
                       NumOf(Entry(ud, week_start + day_offset, obj.id).value)))
    ELSE WeekAchievements(obj, ud, week_start, day_offset + 1, week_achievements)

\* Mutant of WeekProgressScore: the proportional ratio is not capped.
WeekProgressScore_unclamped(obj, achieved) ==
    IF achieved.exc # "" THEN [exc |-> achieved.exc, v |-> R(0)]
    ELSE CASE obj.scoring = "binary" ->
                [exc |-> "",
                 v |-> IF RGe(achieved.v, R(obj.target_value))
                       THEN R(obj.weight) ELSE R(0)]
           [] obj.scoring = "proportional" ->
                IF obj.target_value = 0
                THEN [exc |-> "ZeroDivisionError", v |-> R(0)]
                ELSE [exc |-> "",
                      v |-> RMul(R(obj.weight),
                                 RDiv(achieved.v, R(obj.target_value)))]
           [] OTHER -> [exc |-> "", v |-> R(0)]

\* "Apply scoring" of calculate_week_progress: [exc, v], v what is earned.
WeekProgressScore(obj, achieved) ==
    IF achieved.exc # "" THEN [exc |-> achieved.exc, v |-> R(0)]
    ELSE CASE obj.scoring = "binary" ->
                [exc |-> "",
                 v |-> IF RGe(achieved.v, R(obj.target_value))
                       THEN R(obj.weight) ELSE R(0)]
           [] obj.scoring = "proportional" ->
                IF obj.target_value = 0
                THEN [exc |-> "ZeroDivisionError", v |-> R(0)]
                ELSE [exc |-> "",
                      v |-> IF RLt(RDiv(achieved.v, R(obj.target_value)), R(1))
                            THEN RMul(R(obj.weight),
                                      RDiv(achieved.v, R(obj.target_value)))
                            ELSE R(obj.weight)]
           [] OTHER -> [exc |-> "", v |-> R(0)]

\* One objective in the two loops of calculate_week_progress.
AddDailyOfWeek(obj, ud, week_start, acc) ==
    IF obj.frequency # "daily" THEN acc
    ELSE WeekResult("", RAdd(acc.earned_points, R(DailyWeekEarned(obj, ud, week_start))),
                    acc.total_points + 7 * obj.weight)

AddWeeklyOfWeek(obj, sc, acc) ==
    IF sc.exc # "" THEN WeekResult(sc.exc, acc.earned_points, acc.total_points)
    ELSE WeekResult("", RAdd(acc.earned_points, sc.v), acc.total_points + obj.weight)

RECURSIVE DailyOfWeekLoop(_, _, _, _, _)
DailyOfWeekLoop(prog, ud, week_start, k, acc) ==
    IF k > Len(prog.objectives) THEN acc
    ELSE DailyOfWeekLoop(prog, ud, week_start, k + 1,
                         AddDailyOfWeek(prog.objectives[k], ud, week_start, acc))

RECURSIVE WeeklyOfWeekLoop(_, _, _, _, _)
WeeklyOfWeekLoop(prog, ud, week_start, k, acc) ==
    IF k > Len(prog.objectives) \/ acc.exc # "" THEN acc
    ELSE IF prog.objectives[k].frequency # "weekly"
    THEN WeeklyOfWeekLoop(prog, ud, week_start, k + 1, acc)
    ELSE WeeklyOfWeekLoop(prog, ud, week_start, k + 1,
            AddWeeklyOfWeek(prog.objectives[k],
                WeekProgressScore(prog.objectives[k],
                    WeekAchievements(prog.objectives[k], ud, week_start, 0, R(0))),
                acc))

\* The returned percentage of a week's sums: [exc, v].
WeekPercentage(acc) ==
    IF acc.exc # "" THEN [exc |-> acc.exc, v |-> R(0)]
    ELSE [exc |-> "",
          v |-> IF acc.total_points > 0
                THEN RMul(RDiv(acc.earned_points, R(acc.total_points)), R(100))
                ELSE R(0)]

calculate_week_progress(prog, ud, week_start) ==
    WeekPercentage(
        WeeklyOfWeekLoop(prog, ud, week_start, 1,
            DailyOfWeekLoop(prog, ud, week_start, 1, WeekResult("", R(0), 0))))

NoWeeklyProgress == [exc |-> "", weeks |-> <<>>]

\* "Find first Monday and last Sunday for complete weeks" and num_weeks, as
\* calculate_weekly_progress computes them itself.
WeeksOfProgram(start_date, end_date) ==
    LET first_monday == IF weekday(start_date) = 0 THEN start_date
                        ELSE start_date + (7 - weekday(start_date))
        last_sunday == IF weekday(end_date) = 6 THEN end_date
                       ELSE end_date - (weekday(end_date) + 1)
    IN  [first_monday |-> first_monday, last_sunday |-> last_sunday,
         num_weeks |-> ((last_sunday - first_monday) + 1) \div 7]

\* The loop "for week_num in range(num_weeks)" from week_num on: [exc, weeks],
\* weeks the rounded progress (in tenths) of "Week 1", "Week 2", ...
RECURSIVE WeeklyDataLoop(_, _, _, _, _)
WeeklyDataLoop(prog, ud, wb, week_num, weekly_data) ==
    IF week_num >= wb.num_weeks THEN [exc |-> "", weeks |-> weekly_data]
    ELSE IF calculate_week_progress(prog, ud, wb.first_monday + 7 * week_num).exc # ""
    THEN [exc |-> calculate_week_progress(prog, ud,
                      wb.first_monday + 7 * week_num).exc,
          weeks |-> <<>>]
    ELSE WeeklyDataLoop(prog, ud, wb, week_num + 1,
            Append(weekly_data,
                   RoundTenths(calculate_week_progress(prog, ud,
                                   wb.first_monday + 7 * week_num).v)))

\* The weeks of calculate_weekly_progress once the dates have parsed.
WeeklyDataOf(prog, ud, wb) ==
    IF wb.last_sunday < wb.first_monday THEN [exc |-> "", weeks |-> <<0>>]
    ELSE WeeklyDataLoop(prog, ud, wb, 0, <<>>)

calculate_weekly_progress(prog, ud) ==
    IF prog.k = "None" \/ DateFalsy(prog.start_date) \/ DateFalsy(prog.end_date)
    THEN NoWeeklyProgress
    ELSE IF strptime(prog.start_date).exc # "" \/ strptime(prog.end_date).exc # ""
    THEN NoWeeklyProgress
    ELSE WeeklyDataOf(prog, ud,
            WeeksOfProgram(strptime(prog.start_date).day,
                           strptime(prog.end_date).day))

---------------------------------------------------------------------------
(* The breakdown builder: calculate_detailed_breakdown.                    *)

\* The shell: no objectives, no tasks, zero totals.
EmptyBreakdown ==
    [exc |-> "", objectives |-> <<>>, tasks |-> <<>>,
     totals |-> [current_points |-> R(0), total_points |-> R(0)]]

\* Mutant of calculate_objective_points_detailed: every frequency goes
\* through _compute_objective_points.
calculate_objective_points_detailed_same(prog, objective, ud) ==
    _compute_objective_points(prog, objective, ud)

\* The earned points the breakdown reports for one objective: [exc, v].
calculate_objective_points_detailed(prog, objective, ud) ==
    CASE objective.frequency = "daily" ->
            Pts(R(objective.weight
                    * Cardinality({k \in 1..Len(ud.dates) :
                         /\ HasEntry(ud, ud.dates[k], objective.id)
                         /\ Truthy(Entry(ud, ud.dates[k], objective.id).value)})))
      [] objective.frequency = "weekly" ->
            _compute_weekly_objective_points(prog, objective, ud)
      [] objective.frequency = "program" ->
            _compute_program_objective_points(prog, objective, ud)
      [] OTHER -> Pts(R(0))

\* "Calculate total possible points" of the breakdown.
BreakdownTotal(obj, total_days) ==
    CASE obj.frequency = "daily" -> R(obj.weight * total_days)
      [] obj.frequency = "weekly" -> R(obj.weight * (total_days \div 7))
      [] obj.frequency = "program" -> Rat(total_days, 2)
      [] OTHER -> R(0)

\* daily_breakdown[date]: the day's points and the logged value (0 if none).
DailyBreakdown(obj, ud, start_date, end_date) ==
    [d \in start_date..end_date |->
        [points |-> IF /\ HasEntry(ud, d, obj.id)
                       /\ obj.frequency = "daily"
                       /\ Truthy(Entry(ud, d, obj.id).value)
                    THEN obj.weight ELSE 0,
         value |-> IF HasEntry(ud, d, obj.id) THEN Entry(ud, d, obj.id).value
                   ELSE PyInt(0)]]

\* obj_breakdown, its current_points given.
ObjBreakdown(obj, ud, start_date, end_date, current_points) ==
    [objective |-> obj,
     current_points |-> current_points,
     total_points |-> BreakdownTotal(obj, end_date - start_date + 1),
     daily_breakdown |-> DailyBreakdown(obj, ud, start_date, end_date)]

\* breakdown with one entry appended to the named list and added to totals.
WithEntry(bd, list, entry) ==
    [exc |-> "",
     objectives |-> IF list = "objectives" THEN Append(bd.objectives, entry)
                    ELSE bd.objectives,
     tasks |-> IF list = "tasks" THEN Append(bd.tasks, entry) ELSE bd.tasks,
     totals |-> [current_points |->
                    RAdd(bd.totals.current_points, entry.current_points),
                 total_points |->
                    RAdd(bd.totals.total_points, entry.total_points)]]

\* "for obj in self.program.objectives" from position k on.
RECURSIVE BreakdownObjectives(_, _, _, _, _, _)
BreakdownObjectives(prog, ud, start_date, end_date, k, bd) ==
    IF k > Len(prog.objectives) THEN bd
    ELSE LET cp == calculate_objective_points_detailed(prog, prog.objectives[k], ud)
         IN  IF cp.exc # ""
             THEN [exc |-> cp.exc, objectives |-> <<>>, tasks |-> <<>>,
                   totals |-> EmptyBreakdown.totals]
             ELSE BreakdownObjectives(prog, ud, start_date, end_date, k + 1,
                      WithEntry(bd, "objectives",
                          ObjBreakdown(prog.objectives[k], ud, start_date,
                                       end_date, cp.v)))

\* The position in user_data's dates of the first truthy entry of the task
\* from k on, 0 if none ("Check if task is completed").
RECURSIVE CompletionPosition(_, _, _)
CompletionPosition(task, ud, k) ==
    IF k > Len(ud.dates) THEN 0
    ELSE IF /\ HasEntry(ud, ud.dates[k], task.id)
            /\ Truthy(Entry(ud, ud.dates[k], task.id).value)
    THEN k
    ELSE CompletionPosition(task, ud, k + 1)

\* task_breakdown
TaskBreakdown(task, ud) ==
    LET c == CompletionPosition(task, ud, 1)
    IN  [task |-> task,
         current_points |-> IF c > 0 THEN R(task.weight) ELSE R(0),
         total_points |-> R(task.weight),
         completed |-> c > 0,
         completion_date |-> IF c > 0 THEN Ymd(ud.dates[c]) ELSE NullDate]

\* "for task in self.program.tasks" from position k on.
RECURSIVE BreakdownTasks(_, _, _, _)
BreakdownTasks(prog, ud, k, bd) ==
    IF k > Len(prog.tasks) \/ bd.exc # "" THEN bd
    ELSE BreakdownTasks(prog, ud, k + 1,
                        WithEntry(bd, "tasks", TaskBreakdown(prog.tasks[k], ud)))

\* Mutant of calculate_detailed_breakdown: no test of the dates before they
\* are parsed, and only ValueError caught.
calculate_detailed_breakdown_unguarded(prog, ud) ==
    IF prog.k = "None" THEN EmptyBreakdown
    ELSE IF strptime(prog.start_date).exc = "ValueError" THEN EmptyBreakdown
    ELSE IF strptime(prog.start_date).exc # ""
    THEN [exc |-> strptime(prog.start_date).exc, objectives |-> <<>>,
          tasks |-> <<>>, totals |-> EmptyBreakdown.totals]
    ELSE IF strptime(prog.end_date).exc = "ValueError" THEN EmptyBreakdown
    ELSE IF strptime(prog.end_date).exc # ""
    THEN [exc |-> strptime(prog.end_date).exc, objectives |-> <<>>,
          tasks |-> <<>>, totals |-> EmptyBreakdown.totals]
    ELSE BreakdownTasks(prog, ud, 1,
            BreakdownObjectives(prog, ud, strptime(prog.start_date).day,
                                strptime(prog.end_date).day, 1, EmptyBreakdown))

calculate_detailed_breakdown(prog, ud) ==
    IF prog.k = "None" \/ DateFalsy(prog.start_date) \/ DateFalsy(prog.end_date)
    THEN EmptyBreakdown
    ELSE IF strptime(prog.start_date).exc # "" \/ strptime(prog.end_date).exc # ""
    THEN EmptyBreakdown
    ELSE BreakdownTasks(prog, ud, 1,
            BreakdownObjectives(prog, ud, strptime(prog.start_date).day,
                                strptime(prog.end_date).day, 1, EmptyBreakdown))

---------------------------------------------------------------------------
(* The programs of data_dir.  Each program has a folder holding its        *)
(* program.json and its user_data.csv; the files of the selected program   *)
(* are program_file and log, and data_dir keeps the selection, the name    *)
(* written in the selected program's program.json, and the folders of the  *)
(* other programs by id.                                                   *)

\* One program's folder: the name and the definition of its program.json,
\* the data rows of its user_data.csv, and (history) its saves.
Folder(name, file, rows, sv) ==
    [name |-> name, program_file |-> file, log |-> rows, saved |-> sv]

NoFolders == [id \in {} |-> Folder("", NoProgram, <<>>, [k \in {} |-> PyNone])]

DataDir(current_program_id, name, others) ==
    [current_program_id |-> current_program_id, name |-> name, others |-> others]

\* A data directory with the program "p" selected and no other program.
OneProgram == DataDir("p", "P", NoFolders)

\* The program.json that create_new_program writes, its name apart.
EmptyProgramFile == Program(EmptyDate, EmptyDate, <<>>, <<>>)

\* list_available_programs: the ids of the folders that hold a program.json.
list_available_programs(dir) == {dir.current_program_id} \cup DOMAIN dir.others

Created(exc, ret, dir, file, rows) ==
    [exc |-> exc, ret |-> ret, data_dir |-> dir, program_file |-> file, log |-> rows]

\* create_new_program, were it to leave an existing folder's files alone
create_new_program_fresh(dir, file, rows, program_id, program_name) ==
    IF program_id = "default"
    THEN Created("ValueError", "", dir, file, rows)
    ELSE IF program_id \in list_available_programs(dir)
    THEN Created("", program_id, dir, file, rows)
    ELSE Created("", program_id,
                 [dir EXCEPT !.others =
                    [id \in DOMAIN dir.others \cup {program_id} |->
                        IF id = program_id
                        THEN Folder(program_name, EmptyProgramFile, <<>>,
                                    [k \in {} |-> PyNone])
                        ELSE dir.others[id]]],
                 file, rows)

\* create_new_program(program_id, program_name) on the directory dir whose
\* selected program has the files file and rows: "default" is refused
\* before anything is written; any other id has its folder made if need be and
\* its two files written anew, the selected program's included.  The
\* selection and self.program stay as they are.
create_new_program(dir, file, rows, program_id, program_name) ==
    IF program_id = "default"
    THEN Created("ValueError", "", dir, file, rows)
    ELSE IF program_id = dir.current_program_id
    THEN Created("", program_id, [dir EXCEPT !.name = program_name],
                 EmptyProgramFile, <<>>)
    ELSE Created("", program_id,
                 [dir EXCEPT !.others =
                    [id \in DOMAIN dir.others \cup {program_id} |->
                        IF id = program_id
                        THEN Folder(program_name, EmptyProgramFile, <<>>,
                                    IF id \in DOMAIN dir.others
                                    THEN dir.others[id].saved
                                    ELSE [k \in {} |-> PyNone])
                        ELSE dir.others[id]]],
                 file, rows)

\* select_program(program_id): an id that is not listed is refused; a listed
\* one becomes the selection, so that its folder's files are the selected
\* program's from then on, and self.program is dropped.
select_program(dir, file, rows, sv, program_id) ==
    IF program_id \notin list_available_programs(dir)
    THEN [exc |-> "ValueError", data_dir |-> dir, program_file |-> file,
          log |-> rows, saved |-> sv]
    ELSE IF program_id = dir.current_program_id
    THEN [exc |-> "", data_dir |-> dir, program_file |-> file, log |-> rows,
          saved |-> sv]
    ELSE [exc |-> "",
          data_dir |->
            DataDir(program_id, dir.others[program_id].name,
                    [id \in (DOMAIN dir.others \ {program_id})
                               \cup {dir.current_program_id} |->
                        IF id = dir.current_program_id
                        THEN Folder(dir.name, file, rows, sv)
                        ELSE dir.others[id]]),
          program_file |-> dir.others[program_id].program_file,
          log |-> dir.others[program_id].log,
          saved |-> dir.others[program_id].saved]

---------------------------------------------------------------------------
(* The handlers of app.py, each one atomic step (the server is             *)
(* single-threaded).                                                       *)

\* before and had are history: the number of data rows of the file when the
\* request arrived, and whether a row of (date, item_id) was among them.
Call(op, date, item_id, type, value, before, had) ==
    [op |-> op, date |-> date, item_id |-> item_id, type |-> type, value |-> value,
     before |-> before, had |-> had]

NoCall == Call("", 0, "", "", PyNone, 0, FALSE)
NoWeeklyInfo == [first_monday |-> 0, last_sunday |-> 0, num_complete_weeks |-> 0]

\* load_program: program.json exists for every program the model considers.
load_program(file) == file

\* The local weekly_info of compute_progress (it is computed once the
\* program's dates have parsed).
WeeklyInfoOf(prog) ==
    IF prog.k # "None" /\ strptime(prog.start_date).exc = ""
       /\ strptime(prog.end_date).exc = ""
    THEN _get_weekly_boundaries(strptime(prog.start_date).day,
                                strptime(prog.end_date).day)
    ELSE NoWeeklyInfo

\* The history of saves: a stored value replaces the pair's, an undo forgets
\* every pair of the item, a call that raised changes nothing.
SavedAfter(sv, r, date, item_id, item_type, value) ==
    IF r.exc # "" THEN sv
    ELSE IF UndoTest(item_type, value).undo
    THEN [k \in {q \in DOMAIN sv : q[2] # item_id} |-> sv[k]]
    ELSE [k \in DOMAIN sv \cup {<<date, item_id>>} |->
            IF k = <<date, item_id>> THEN value ELSE sv[k]]

\* POST /api/save_data
save_data(date, item_id, item_type, value) ==
    LET r == save_user_data_entry(log, date, item_id, item_type, value)
    IN  /\ log' = r.rows
        /\ raised' = r.exc
        /\ call' = Call("save_data", date, item_id, item_type, value, Len(log),
                       FirstMatch(log, date, item_id) # 0)
        /\ saved' = SavedAfter(saved, r, date, item_id, item_type, value)
        /\ user_data' = EmptyUserData
        /\ weekly_info' = NoWeeklyInfo
        /\ progress' = ProgressNone
        /\ weekly_progress' = NoWeeklyProgress
        /\ breakdown' = EmptyBreakdown
        /\ UNCHANGED <<program_file, program, today, data_dir>>

\* GET /daily: load_program, then get_user_data for the page.
daily ==
    /\ program' = load_program(program_file)
    /\ user_data' = get_user_data(log)
    /\ call' = Call("daily", 0, "", "", PyNone, Len(log), FALSE)
    /\ raised' = ""
    /\ weekly_info' = NoWeeklyInfo
    /\ progress' = ProgressNone
    /\ weekly_progress' = NoWeeklyProgress
    /\ breakdown' = EmptyBreakdown
    /\ UNCHANGED <<program_file, log, today, saved, data_dir>>

\* GET /api/progress: load_program, get_user_data, compute_progress.
get_progress ==
    LET prog == load_program(program_file)
        ud == get_user_data(log)
        res == compute_progress(prog, ud, today)
    IN  /\ program' = prog
        /\ user_data' = ud
        /\ weekly_info' = WeeklyInfoOf(prog)
        /\ progress' = res
        /\ weekly_progress' = NoWeeklyProgress
        /\ breakdown' = EmptyBreakdown
        /\ raised' = res.exc
        /\ call' = Call("get_progress", 0, "", "", PyNone, Len(log), FALSE)
        /\ UNCHANGED <<program_file, log, today, saved, data_dir>>

\* The weekly progress of the loaded program: load_program, get_user_data,
\* calculate_weekly_progress.
weekly_progress_call ==
    LET prog == load_program(program_file)
        ud == get_user_data(log)
        res == calculate_weekly_progress(prog, ud)
    IN  /\ program' = prog
        /\ user_data' = ud
        /\ weekly_info' = NoWeeklyInfo
        /\ progress' = ProgressNone
        /\ weekly_progress' = res
        /\ breakdown' = EmptyBreakdown
        /\ raised' = res.exc
        /\ call' = Call("calculate_weekly_progress", 0, "", "", PyNone, Len(log), FALSE)
        /\ UNCHANGED <<program_file, log, today, saved, data_dir>>

\* The breakdown of the loaded program: load_program, get_user_data,
\* calculate_detailed_breakdown.
detailed_breakdown ==
    LET prog == load_program(program_file)
        ud == get_user_data(log)
        bd == calculate_detailed_breakdown(prog, ud)
    IN  /\ program' = prog
        /\ user_data' = ud
        /\ weekly_info' = NoWeeklyInfo
        /\ progress' = ProgressNone
        /\ weekly_progress' = NoWeeklyProgress
        /\ breakdown' = bd
        /\ raised' = bd.exc
        /\ call' = Call("calculate_detailed_breakdown", 0, "", "", PyNone, Len(log), FALSE)
        /\ UNCHANGED <<program_file, log, today, saved, data_dir>>

\* The clock: a day passes between two requests (no handler is running, so
\* no handler's locals are kept).
Tick(last) ==
    /\ today < last
    /\ today' = today + 1
    /\ call' = NoCall
    /\ raised' = ""
    /\ user_data' = EmptyUserData
    /\ weekly_info' = NoWeeklyInfo
    /\ progress' = ProgressNone
    /\ weekly_progress' = NoWeeklyProgress
    /\ breakdown' = EmptyBreakdown
    /\ UNCHANGED <<program_file, program, log, saved, data_dir>>

\* POST /api/create_program, once the id is sanitised: create_new_program.
\* The call's item_id is the program id, its had whether that program was
\* listed when the request arrived.
create_program(program_id, program_name) ==
    LET r == create_new_program(data_dir, program_file, log, program_id,
                                program_name)
    IN  /\ data_dir' = r.data_dir
        /\ program_file' = r.program_file
        /\ log' = r.log
        /\ raised' = r.exc
        /\ call' = Call("create_program", 0, program_id, "", PyNone, Len(log),
                        program_id \in list_available_programs(data_dir))
        /\ user_data' = EmptyUserData
        /\ weekly_info' = NoWeeklyInfo
        /\ progress' = ProgressNone
        /\ weekly_progress' = NoWeeklyProgress
        /\ breakdown' = EmptyBreakdown
        /\ UNCHANGED <<program, today, saved>>

\* POST /api/select_program: select_program.
select_program_call(program_id) ==
    LET r == select_program(data_dir, program_file, log, saved, program_id)
    IN  /\ data_dir' = r.data_dir
        /\ program_file' = r.program_file
        /\ log' = r.log
        /\ saved' = r.saved
        /\ raised' = r.exc
        /\ program' = IF r.exc = "" THEN NoProgram ELSE program
        /\ call' = Call("select_program", 0, program_id, "", PyNone, Len(log),
                        program_id \in list_available_programs(data_dir))
        /\ user_data' = EmptyUserData
        /\ weekly_info' = NoWeeklyInfo
        /\ progress' = ProgressNone
        /\ weekly_progress' = NoWeeklyProgress
        /\ breakdown' = EmptyBreakdown
        /\ UNCHANGED today

---------------------------------------------------------------------------
(* Spec: the entry store driven by save requests, from an empty log.       *)

MaxRows == 2
StoreDays == {0, 1}
MaxLogDay == 16

\* The (item_id, item_type) of the save requests.
StoreCalls == {<<"t1", "task">>, <<"o1", "objective">>, <<"o1", "task">>}
StoreValues ==
    {PyInt(0), PyInt(1), PyStr(<<"2", ".", "5">>), PyStr(<<"a", "b", "c">>)}

StoreProgram ==
    Program(Ymd(0), Ymd(6),
            <<Objective("o1", "checkbox", "daily", "binary", 0, 1, 1, "bien")>>,
            <<Task("t1", 5)>>)

Init ==
    /\ program_file = StoreProgram
    /\ program = NoProgram
    /\ log = <<>>
    /\ today = 0
    /\ call = NoCall
    /\ raised = ""
    /\ user_data = EmptyUserData
    /\ weekly_info = NoWeeklyInfo
    /\ progress = ProgressNone
    /\ weekly_progress = NoWeeklyProgress
    /\ breakdown = EmptyBreakdown
    /\ saved = [k \in {} |-> PyNone]
    /\ data_dir = OneProgram

SaveSome ==
    \E date \in StoreDays, c \in StoreCalls, value \in StoreValues :
        /\ Len(save_user_data_entry(log, date, c[1], c[2], value).rows) <= MaxRows
        /\ save_data(date, c[1], c[2], value)

Next == SaveSome \/ daily \/ get_progress

Spec == Init /\ [][Next]_vars

---------------------------------------------------------------------------
(* Claims about the entry store, checked under Spec.                       *)

IsSave == call.op = "save_data"
IsUndoCall == IsSave /\ call.type = "task" /\ call.value = PyInt(0)

WithoutTask(prog, id) ==
    [prog EXCEPT !.tasks = SelectSeq(prog.tasks, LAMBDA t : t.id # id)]

IsTaskOf(prog, id) == \E k \in 1..Len(prog.tasks) : prog.tasks[k].id = id

\* C1: after save_user_data_entry(date, t, "task", 0) no row of the log has
\* item_id t, on any date; get_user_data then has no entry for t, and
\* compute_progress gives the current_points of the program without task t.
C1_TaskUndoRemovesEveryEntry ==
    IsUndoCall =>
        /\ raised = ""
        /\ \A k \in 1..Len(log) : log[k].item_id # call.item_id
        /\ \A key \in DOMAIN get_user_data(log).at : key[2] # call.item_id
        /\ IsTaskOf(program_file, call.item_id) =>
              compute_progress(program_file, get_user_data(log), today).current_points
                = compute_progress(WithoutTask(program_file, call.item_id),
                                   get_user_data(log), today).current_points

\* C1 witness: an undo of task t1 that removed two rows (t1 was saved on two dates).
C1_Witness ==
    /\ IsUndoCall
    /\ call.item_id = "t1"
    /\ call.before = 2
    /\ log = <<>>

NoDuplicatePair ==
    \A j, k \in 1..Len(log) :
        (log[j].date = log[k].date /\ log[j].item_id = log[k].item_id) => j = k

\* C2: from an empty log, after any sequence of saves, at most one row per
\* (date, item_id); a save to an existing pair changes no row count; and
\* get_user_data holds, for each pair, the value it was last saved with.
C2_OneRowPerPairLastValueWins ==
    /\ NoDuplicatePair
    /\ (IsSave /\ call.had /\ ~IsUndoCall /\ raised = "") => Len(log) = call.before
    /\ DOMAIN get_user_data(log).at = DOMAIN saved
    /\ \A key \in DOMAIN saved :
          get_user_data(log).at[key].value = ConvertValue(PyStrOf(saved[key]))

\* C2 witness: a save that overwrote an existing pair with another value.
C2_Witness ==
    /\ IsSave /\ call.had /\ raised = ""
    /\ call.value = PyInt(1)
    /\ Len(log) = 2
    /\ \E k \in 1..Len(log) :
          /\ log[k].date = call.date /\ log[k].item_id = call.item_id
          /\ log[k].value = <<"1">>

\* The converted value the round trip is to give for each value saved.
ExpectedRead(v) ==
    CASE v = PyInt(0) -> PyInt(0)
      [] v = PyInt(1) -> PyInt(1)
      [] v = PyStr(<<"2", ".", "5">>) -> PyFloat(5, 2)
      [] v = PyStr(<<"a", "b", "c">>) -> PyStr(<<"a", "b", "c">>)

\* C3 (as claimed): after every save that returns and is not an undo,
\* get_user_data returns for (date, item_id) the type and the coerced value
\* of the call.
C3_RoundTripTypeAndValue ==
    (IsSave /\ raised = "" /\ ~UndoTest(call.type, call.value).undo) =>
        /\ <<call.date, call.item_id>> \in DOMAIN get_user_data(log).at
        /\ get_user_data(log).at[<<call.date, call.item_id>>]
             = [type |-> call.type, value |-> ExpectedRead(call.value)]

---------------------------------------------------------------------------
(* Specifications of compute_progress as a function of the program, the    *)
(* entry log and the clock: Init draws the three, get_progress applies it. *)

\* The logs over the given items and days with at most max rows, rows in
\* date order.  items is a sequence of [id, type]; choice maps the (day,
\* item index) pairs that have a row to the stored value.
EntryChoices(days, items, values, max) ==
    UNION {[S -> values] :
            S \in {T \in SUBSET (days \X (1..Len(items))) : Cardinality(T) <= max}}

RECURSIVE RowsFrom(_, _, _, _)
RowsFrom(choice, items, day, last) ==
    IF day > last THEN <<>>
    ELSE LET present == SelectSeq([i \in 1..Len(items) |-> i],
                                  LAMBDA i : <<day, i>> \in DOMAIN choice)
         IN  [k \in 1..Len(present) |->
                Row(day, items[present[k]].id, items[present[k]].type,
                    choice[<<day, present[k]>>])]
             \o RowsFrom(choice, items, day + 1, last)

Logs(days, items, values, max) ==
    {RowsFrom(c, items, 0, MaxLogDay) : c \in EntryChoices(days, items, values, max)}

Item(id, type) == [id |-> id, type |-> type]

StartOf(prog) == strptime(prog.start_date).day
EndOf(prog) == strptime(prog.end_date).day

TickSome == Tick(EndOf(program_file) + 2)

ProgressNext == get_progress \/ TickSome

\* The clock is drawn from two days before the start (early) or from the
\* last day of the program, to two days after the end.
InitWith(programs, logs, early) ==
    /\ program_file \in programs
    /\ program = NoProgram
    /\ log \in logs
    /\ today \in (IF early THEN StartOf(program_file) - 2 ELSE EndOf(program_file))
                    ..(EndOf(program_file) + 2)
    /\ call = NoCall
    /\ raised = ""
    /\ user_data = EmptyUserData
    /\ weekly_info = NoWeeklyInfo
    /\ progress = ProgressNone
    /\ weekly_progress = NoWeeklyProgress
    /\ breakdown = EmptyBreakdown
    /\ saved = [k \in {} |-> PyNone]
    /\ data_dir = OneProgram

Answered == call.op = "get_progress"

---------------------------------------------------------------------------
(* SpecDates: every start_date <= end_date and every clock value.          *)

MaxStart == 6
MaxSpan == 15

MixedObjectives ==
    <<Objective("o1", "checkbox", "daily", "binary", 0, 1, 1, "bien"),
      Objective("o2", "checkbox", "weekly", "binary", 0, 1, 5, "important"),
      Objective("o3", "checkbox", "program", "binary", 0, 1, 15, "indispensable")>>

DatesPrograms ==
    {Program(Ymd(start), Ymd(start + span), MixedObjectives, <<Task("t1", 5)>>) :
        start \in 0..MaxStart, span \in 0..MaxSpan}

InitDates == InitWith(DatesPrograms, {<<>>}, TRUE)

SpecDates == InitDates /\ [][ProgressNext]_vars

\* C6: for start_date <= end_date and any today, compute_progress reports
\* total_days = end - start + 1 and elapsed_days = 0 before the start,
\* total_days after the end, today - start + 1 in between (the number of
\* program days up to today), so 0 <= elapsed_days <= total_days.
C6_ElapsedAndTotalDays ==
    (Answered /\ StartOf(program) <= EndOf(program)) =>
        LET start_date == StartOf(program)
            end_date == EndOf(program)
        IN  /\ progress.kind = "dict"
            /\ progress.total_days = end_date - start_date + 1
            /\ progress.elapsed_days =
                  (CASE today < start_date -> 0
                     [] today > end_date -> progress.total_days
                     [] OTHER -> today - start_date + 1)
            /\ progress.elapsed_days
                 = Cardinality({d \in start_date..end_date : d <= today})
            /\ 0 <= progress.elapsed_days
            /\ progress.elapsed_days <= progress.total_days

\* C6 witness: an answer on a day strictly inside a program of several days.
C6_Witness ==
    /\ Answered
    /\ StartOf(program) < today /\ today < EndOf(program)
    /\ progress.elapsed_days = 3
    /\ progress.total_days = 10

\* C7: for start_date <= end_date, first_monday is the earliest Monday on or
\* after start_date, last_sunday the latest Sunday on or before end_date,
\* and num_complete_weeks is 0 if last_sunday < first_monday and else
\* (last_sunday - first_monday + 1) / 7, the number of Monday-to-Sunday
\* weeks that lie wholly inside [start_date, end_date].
C7_WeeklyBoundaries ==
    (Answered /\ StartOf(program) <= EndOf(program)) =>
        LET start_date == StartOf(program)
            end_date == EndOf(program)
            wb == weekly_info
        IN  /\ wb.first_monday % 7 = 0
            /\ wb.first_monday >= start_date
            /\ \A d \in start_date..(wb.first_monday - 1) : d % 7 # 0
            /\ wb.last_sunday % 7 = 6
            /\ wb.last_sunday <= end_date
            /\ \A d \in (wb.last_sunday + 1)..end_date : d % 7 # 6
            /\ wb.last_sunday < wb.first_monday => wb.num_complete_weeks = 0
            /\ wb.last_sunday >= wb.first_monday =>
                  7 * wb.num_complete_weeks = wb.last_sunday - wb.first_monday + 1
            /\ wb.num_complete_weeks
                 = Cardinality({m \in start_date..end_date :
                                    m % 7 = 0 /\ m + 6 <= end_date})

\* C7 witness: two complete weeks between a partial first and a partial last week.
C7_Witness ==
    /\ Answered
    /\ weekly_info.num_complete_weeks = 2
    /\ weekly_info.first_monday > StartOf(program)
    /\ weekly_info.last_sunday < EndOf(program)

---------------------------------------------------------------------------
(* SpecZero: programs of at most one objective and one task, with zero and *)
(* non-zero weights, every frequency (an unknown one too), start_value     *)
(* different from target_value, with and without a complete week.          *)

MaxZeroEntries == 1

ZeroObjectives ==
    {Objective("o1", type, frequency, scoring, sv, 1 - sv, weight, "bien") :
        type \in {"checkbox", "cumulative"},
        frequency \in {"daily", "weekly", "program", "monthly"},
        scoring \in {"binary", "proportional"},
        sv \in {0, 1},
        weight \in {0, 2}}

ZeroPrograms ==
    {Program(Ymd(dates[1]), Ymd(dates[2]), objectives, tasks) :
        dates \in {<<0, 6>>, <<1, 5>>},
        objectives \in {<<>>} \cup {<<o>> : o \in ZeroObjectives},
        tasks \in {<<>>, <<Task("t1", 0)>>}}

ZeroLogs ==
    Logs({1}, <<Item("o1", "objective"), Item("t1", "task")>>,
         {<<"1">>, <<"0">>}, MaxZeroEntries)

InitZero == InitWith(ZeroPrograms, ZeroLogs, TRUE)

SpecZero == InitZero /\ [][ProgressNext]_vars

\* The total possible points of a program: the maximum of every objective
\* plus the weight of every task.
RECURSIVE SumInts(_)
SumInts(seq) == IF seq = <<>> THEN 0 ELSE Head(seq) + SumInts(Tail(seq))

TotalPointsOf(prog) ==
    SumInts([k \in 1..Len(prog.objectives) |->
                get_objective_max_points(prog, prog.objectives[k])])
      + SumInts([k \in 1..Len(prog.tasks) |-> prog.tasks[k].weight])

\* C4: for every loaded program with valid dates whose total possible points
\* are 0, and every entry log, compute_progress returns a dict with
\* current_progress = 0 and expected_progress = 0, and no division by zero
\* happens.
C4_ZeroTotalNoDivisionByZero ==
    (Answered /\ TotalPointsOf(program) = 0) =>
        /\ raised # "ZeroDivisionError"
        /\ progress.kind = "dict"
        /\ progress.current_progress = 0
        /\ progress.expected_progress = 0

---------------------------------------------------------------------------
(* SpecTasks: two tasks of several weights, with and without a daily       *)
(* objective, over 7 and 10 days.                                          *)

MaxTaskEntries == 2

TaskWeights == {1, 58, 349}

TasksPrograms ==
    {Program(Ymd(0), Ymd(last), objectives, <<Task("t1", w1), Task("t2", w2)>>) :
        last \in {6, 9},
        objectives \in {<<>>,
            <<Objective("o1", "checkbox", "daily", "binary", 0, 1, 1, "bien")>>},
        w1 \in TaskWeights, w2 \in TaskWeights}

TasksLogs ==
    Logs({0, 1}, <<Item("o1", "objective"), Item("t1", "task"), Item("t2", "task")>>,
         {<<"1">>, <<"0">>}, MaxTaskEntries)

InitTasks == InitWith(TasksPrograms, TasksLogs, TRUE)

SpecTasks == InitTasks /\ [][ProgressNext]_vars

\* C5: is_on_track is true exactly when the unrounded current percentage
\* (current_points / total_points * 100, or 0 when total_points is 0) is at
\* least the unrounded expected percentage: with total_points > 0 exactly
\* when current_points >= expected_points, whatever the two rounded
\* percentages are.
C5_OnTrackComparesUnrounded ==
    (Answered /\ progress.kind = "dict") =>
        (progress.is_on_track <=>
            (progress.total_points.n > 0 =>
                progress.current_points.n * progress.expected_points.d
                    >= progress.expected_points.n * progress.current_points.d))

\* C5 witness: the flag is false while the two reported percentages are equal.
C5_Witness ==
    /\ Answered
    /\ progress.kind = "dict"
    /\ ~progress.is_on_track
    /\ progress.current_progress = progress.expected_progress
    /\ progress.current_progress = 143

---------------------------------------------------------------------------
(* SpecDaily: 7-day programs of one, two and three daily checkbox          *)
(* objectives; entries inside and after the program, checked and unchecked.*)

MaxDailyEntries == 3

DailyObjective(id, weight, importance) ==
    Objective(id, "checkbox", "daily", "binary", 0, 1, weight, importance)

DailyObjectiveLists ==
    {<<DailyObjective("o1", weight, importance)>> :
        weight \in {1, 3}, importance \in {"indispensable", "important", "bien"}}
    \cup {<<DailyObjective("o1", 2, "important"),
            DailyObjective("o2", 3, "indispensable")>>,
          <<DailyObjective("o1", 1, "indispensable"),
            DailyObjective("o2", 1, "important"),
            DailyObjective("o3", 1, "bien")>>}

DailyPrograms ==
    {Program(Ymd(0), Ymd(6), objectives, <<>>) : objectives \in DailyObjectiveLists}

DailyLogs ==
    Logs({0, 3, 7},
         <<Item("o1", "objective"), Item("o2", "objective"), Item("o3", "objective")>>,
         {<<"1">>, <<"0">>}, MaxDailyEntries)

InitDaily == InitWith(DailyPrograms, DailyLogs, FALSE)

SpecDaily == InitDaily /\ [][ProgressNext]_vars

\* The multiplier of the three importances.
ImportanceFactor(importance) ==
    CASE importance = "indispensable" -> 3
      [] importance = "important" -> 2
      [] importance = "bien" -> 1

\* The number of dates of the entry store that hold a truthy value for the item.
TruthyDates(id) ==
    Cardinality({k \in 1..Len(user_data.dates) :
                    /\ HasEntry(user_data, user_data.dates[k], id)
                    /\ Truthy(Entry(user_data, user_data.dates[k], id).value)})

\* C8: with daily checkbox objectives only, total_points is the sum over the
\* objectives of weight x total_days x multiplier and current_points the sum
\* of weight x (number of dates holding a truthy value for the objective)
\* x multiplier, the multiplier being 3 / 2 / 1 for indispensable /
\* important / bien.
C8_DailyCheckboxPoints ==
    Answered =>
        LET objectives == program.objectives
            total_days == EndOf(program) - StartOf(program) + 1
        IN  /\ progress.kind = "dict"
            /\ progress.total_points =
                  R(SumInts([k \in 1..Len(objectives) |->
                        objectives[k].weight * total_days
                            * ImportanceFactor(objectives[k].importance)]))
            /\ progress.current_points =
                  R(SumInts([k \in 1..Len(objectives) |->
                        objectives[k].weight * TruthyDates(objectives[k].id)
                            * ImportanceFactor(objectives[k].importance)]))

\* C8 witness: three weight-1 objectives of the three importances, each done
\* on one day of the 7 days: 6 of 42.
C8_Witness ==
    /\ Answered
    /\ Len(program.objectives) = 3
    /\ \A k \in 1..3 : TruthyDates(program.objectives[k].id) = 1
    /\ progress.current_points = R(6)
    /\ progress.total_points = R(42)

---------------------------------------------------------------------------
(* SpecWeekly: one weekly objective of either type and scoring, over       *)
(* programs of two complete weeks, of one complete week between two        *)
(* partial ones, and of no complete week.                                  *)

MaxWeeklyEntries == 3

WeeklyObjectives ==
    {Objective("o1", type, "weekly", scoring, 0, twi[1], twi[2], twi[3]) :
        type \in {"checkbox", "cumulative"},
        scoring \in {"binary", "proportional"},
        twi \in {<<3, 20, "important">>, <<100, 10, "bien">>,
                 <<2, 1, "indispensable">>}}

WeeklyPrograms ==
    {Program(Ymd(dates[1]), Ymd(dates[2]), <<o>>, <<>>) :
        dates \in {<<0, 13>>, <<3, 16>>, <<1, 6>>}, o \in WeeklyObjectives}

WeeklyLogs ==
    Logs({4, 7, 8, 9, 14}, <<Item("o1", "objective")>>,
         {<<"1">>, <<"0">>, <<"2", "5">>}, MaxWeeklyEntries)

InitWeekly == InitWith(WeeklyPrograms, WeeklyLogs, FALSE)

SpecWeekly == InitWeekly /\ [][ProgressNext]_vars

\* The Mondays of the complete weeks: the Monday-to-Sunday spans inside the program.
CompleteMondays(prog) ==
    {m \in StartOf(prog)..EndOf(prog) : m % 7 = 0 /\ m + 6 <= EndOf(prog)}

\* The number of entries of the item in the week of the given Monday.
WeekCount(id, monday) ==
    Cardinality({d \in monday..(monday + 6) : HasEntry(user_data, d, id)})

\* The sum of the entries of the item from day d to the given Sunday, as numbers.
RECURSIVE WeekSumFrom(_, _, _)
WeekSumFrom(id, d, sunday) ==
    IF d > sunday THEN R(0)
    ELSE RAdd(IF HasEntry(user_data, d, id)
              THEN FloatOrZero(Entry(user_data, d, id).value) ELSE R(0),
              WeekSumFrom(id, d + 1, sunday))

\* The week-value: the sum of a cumulative objective's entries of the week,
\* the number of a checkbox objective's entries of the week.
WeekValueOf(objective, monday) ==
    IF objective.type = "cumulative"
    THEN WeekSumFrom(objective.id, monday, monday + 6)
    ELSE R(WeekCount(objective.id, monday))

\* C9: a weekly objective with binary scoring earns weight x multiplier x
\* (number of complete weeks whose week-value is >= target_value), nothing
\* for a week below target, and its total earnable is weight x (number of
\* complete weeks) x multiplier.
C9_WeeklyBinaryPoints ==
    (Answered /\ program.objectives[1].scoring = "binary") =>
        LET o == program.objectives[1]
            mondays == CompleteMondays(program)
            reached == {m \in mondays : RGe(WeekValueOf(o, m), R(o.target_value))}
        IN  /\ progress.kind = "dict"
            /\ progress.current_points
                 = R(o.weight * ImportanceFactor(o.importance) * Cardinality(reached))
            /\ progress.total_points
                 = R(o.weight * Cardinality(mondays) * ImportanceFactor(o.importance))

\* C9 witness: target 3, weight 20, x2, three logged in one complete week
\* and fewer in the other: 40 points.
C9_Witness ==
    /\ Answered
    /\ program.objectives[1].scoring = "binary"
    /\ program.objectives[1].type = "cumulative"
    /\ program.objectives[1].target_value = 3
    /\ Cardinality(CompleteMondays(program)) = 2
    /\ WeekValueOf(program.objectives[1], 7) = R(3)
    /\ progress.current_points = R(40)

\* The sum over the given Mondays of weight x week-sum / target_value.
RECURSIVE ProportionalSum(_, _)
ProportionalSum(objective, mondays) ==
    IF mondays = {} THEN R(0)
    ELSE LET m == CHOOSE x \in mondays : TRUE
         IN  RAdd(RDiv(RMul(R(objective.weight),
                            WeekSumFrom(objective.id, m, m + 6)),
                       R(objective.target_value)),
                  ProportionalSum(objective, mondays \ {m}))

\* C10: a weekly cumulative objective with proportional scoring earns, for
\* each complete week, weight x week-sum / target_value with no cap at
\* weight; the weeks are summed and the sum is multiplied by the importance
\* multiplier.
C10_WeeklyProportionalUnclamped ==
    (/\ Answered
     /\ program.objectives[1].scoring = "proportional"
     /\ program.objectives[1].type = "cumulative") =>
        LET o == program.objectives[1]
        IN  /\ progress.kind = "dict"
            /\ progress.current_points
                 = RMul(ProportionalSum(o, CompleteMondays(program)),
                        R(ImportanceFactor(o.importance)))

\* C10 witness: entries summing to 50 in the one complete week, with target
\* 3 and weight 20 (x2), earn more than the week's 40.
C10_Witness ==
    /\ Answered
    /\ program.objectives[1].scoring = "proportional"
    /\ program.objectives[1].type = "cumulative"
    /\ program.objectives[1].target_value = 3
    /\ Cardinality(CompleteMondays(program)) = 1
    /\ WeekSumFrom("o1", 7, 13) = R(50)
    /\ RLt(R(40), progress.current_points)

---------------------------------------------------------------------------
(* SpecProgram: one program-frequency objective of every type and scoring, *)
(* with an increasing goal, a decreasing goal and start_value =            *)
(* target_value, over one and two weeks.                                   *)

MaxProgramEntries == 2

ProgramObjectives ==
    {Objective("o1", type, "program", scoring, stwi[1], stwi[2], stwi[3], stwi[4]) :
        type \in {"checkbox", "cumulative", "latest"},
        scoring \in {"binary", "proportional"},
        stwi \in {<<80, 75, 50, "indispensable">>, <<0, 2, 4, "important">>,
                  <<2, 2, 3, "bien">>}}

ProgramPrograms ==
    {Program(Ymd(0), Ymd(last), <<o>>, <<>>) :
        last \in {6, 13}, o \in ProgramObjectives}

ProgramLogs ==
    Logs({0, 2, 15}, <<Item("o1", "objective")>>,
         {<<"7", "6">>, <<"1">>, <<"3">>, <<"0">>}, MaxProgramEntries)

InitProgram == InitWith(ProgramPrograms, ProgramLogs, FALSE)

SpecProgram == InitProgram /\ [][ProgressNext]_vars

\* The positions of the entry store's dates that hold an entry of the item.
EntryPositions(id) ==
    {k \in 1..Len(user_data.dates) : HasEntry(user_data, user_data.dates[k], id)}

\* The sum, as numbers, of the item's entries from position k on.
RECURSIVE SumEntriesFrom(_, _)
SumEntriesFrom(id, k) ==
    IF k > Len(user_data.dates) THEN R(0)
    ELSE RAdd(IF k \in EntryPositions(id)
              THEN FloatOrZero(Entry(user_data, user_data.dates[k], id).value)
              ELSE R(0),
              SumEntriesFrom(id, k + 1))

\* The aggregate value of a program objective: the number of its entries
\* (checkbox), the sum of their values (cumulative), the value of the last
\* one in the entry store's order or 0 with none (latest).
AggregateOf(objective) ==
    CASE objective.type = "checkbox" -> R(Cardinality(EntryPositions(objective.id)))
      [] objective.type = "cumulative" -> SumEntriesFrom(objective.id, 1)
      [] objective.type = "latest" ->
            IF EntryPositions(objective.id) = {} THEN R(0)
            ELSE LET last == CHOOSE k \in EntryPositions(objective.id) :
                                \A j \in EntryPositions(objective.id) : j <= k
                 IN  FloatOrZero(Entry(user_data, user_data.dates[last],
                                       objective.id).value)

\* C11: a program objective with proportional scoring and aggregate value v
\* earns weight x (start_value - v) / (start_value - target_value) x
\* multiplier when start_value > target_value and weight x v / target_value
\* x multiplier otherwise, unclamped.
C11_ProgramProportionalUnclamped ==
    (Answered /\ program.objectives[1].scoring = "proportional") =>
        LET o == program.objectives[1]
            v == AggregateOf(o)
            m == R(ImportanceFactor(o.importance))
        IN  /\ progress.kind = "dict"
            /\ progress.current_points =
                  IF o.start_value > o.target_value
                  THEN RMul(RDiv(RMul(R(o.weight), RSub(R(o.start_value), v)),
                                 R(o.start_value - o.target_value)), m)
                  ELSE RMul(RDiv(RMul(R(o.weight), v), R(o.target_value)), m)

\* C11 witness: a decreasing goal overshot upwards earns negative points.
C11_Witness ==
    /\ Answered
    /\ program.objectives[1].scoring = "proportional"
    /\ program.objectives[1].start_value > program.objectives[1].target_value
    /\ RLt(R(program.objectives[1].start_value), AggregateOf(program.objectives[1]))
    /\ RLt(progress.current_points, R(0))

\* The objective of the example: weight 50, start_value 80, target_value 75,
\* importance indispensable, with 76 as its latest logged value.
ExampleLatest76 ==
    /\ Answered
    /\ program.objectives[1]
          = Objective("o1", "latest", "program", "proportional", 80, 75, 50,
                      "indispensable")
    /\ AggregateOf(program.objectives[1]) = R(76)

\* C12 (as claimed): a latest proportional program objective with weight 50,
\* start_value 80, target_value 75, importance indispensable and latest
\* logged value 76 contributes 600 to current_points.
C12_LatestProportionalExample ==
    ExampleLatest76 =>
        /\ progress.kind = "dict"
        /\ progress.current_points = R(600)

\* C12 (amended): the same objective contributes
\* 50 x ((80 - 76) / (80 - 75)) x 3 = 120 to current_points.
C12_LatestProportionalExample120 ==
    ExampleLatest76 =>
        /\ progress.kind = "dict"
        /\ progress.current_points = R(120)

\* C12 witness: the objective of the example with 76 logged after another value.
C12_Witness ==
    /\ ExampleLatest76
    /\ Len(log) = 2
    /\ log[2].value = <<"7", "6">>
    /\ progress.current_points = R(120)

---------------------------------------------------------------------------
(* SpecLatest: a latest objective whose entries are written by save        *)
(* requests in any order of dates, next to the entries of another item.    *)

MaxLatestRows == 3

LatestProgram ==
    Program(Ymd(0), Ymd(6),
            <<Objective("o1", "latest", "program", "proportional", 0, 2, 4, "important")>>,
            <<>>)

LatestCalls == {<<"o1", "objective">>, <<"t1", "task">>}
LatestValues == {PyInt(0), PyInt(1), PyInt(3)}

InitLatest ==
    /\ program_file = LatestProgram
    /\ program = NoProgram
    /\ log = <<>>
    /\ today = 0
    /\ call = NoCall
    /\ raised = ""
    /\ user_data = EmptyUserData
    /\ weekly_info = NoWeeklyInfo
    /\ progress = ProgressNone
    /\ weekly_progress = NoWeeklyProgress
    /\ breakdown = EmptyBreakdown
    /\ saved = [k \in {} |-> PyNone]
    /\ data_dir = OneProgram

SaveLatest ==
    \E date \in StoreDays, c \in LatestCalls, value \in LatestValues :
        /\ Len(save_user_data_entry(log, date, c[1], c[2], value).rows) <= MaxLatestRows
        /\ save_data(date, c[1], c[2], value)

NextLatest == SaveLatest \/ get_progress

SpecLatest == InitLatest /\ [][NextLatest]_vars

\* The dates on which the log has a row of the item.
DatesOf(id) == {log[k].date : k \in {j \in 1..Len(log) : log[j].item_id = id}}

\* The position of the first row of the log that bears the date.
FirstRowOf(date) ==
    CHOOSE k \in 1..Len(log) :
        log[k].date = date /\ \A j \in 1..(k - 1) : log[j].date # date

\* Of the dates holding the item, the one that appeared last in the log.
LastAppeared(id) ==
    CHOOSE d \in DatesOf(id) : \A e \in DatesOf(id) : FirstRowOf(e) <= FirstRowOf(d)

\* The number logged for the item on the date.
LoggedNumber(id, date) ==
    LET k == CHOOSE j \in 1..Len(log) : log[j].date = date /\ log[j].item_id = id
    IN  FloatOrZero(ConvertValue(log[k].value))

\* The value a latest objective is scored on: that of the date which
\* appeared last in the log, 0 with no entry.
LatestValueOf(id) ==
    IF DatesOf(id) = {} THEN R(0) ELSE LoggedNumber(id, LastAppeared(id))

\* C14: a program latest objective is scored on the value of its last entry
\* in the entry store's iteration order, the order in which the dates first
\* appear in the log after any sequence of saves and overwrites, not on the
\* entry of the greatest date; with no entry the value is 0.  (The objective
\* here earns weight x value / target_value x multiplier = 4 x value.)
C14_LatestFollowsIterationOrder ==
    Answered =>
        /\ progress.kind = "dict"
        /\ progress.current_points = RMul(R(4), LatestValueOf("o1"))

\* C14 witness: the date that appeared last is neither the greatest date of
\* the objective nor the date of its last row, and the score follows it.
C14_Witness ==
    /\ Answered
    /\ Len(log) = 3
    /\ log[3].item_id = "o1"
    /\ log[3].date = 1
    /\ LastAppeared("o1") = 0
    /\ LoggedNumber("o1", 0) = R(3)
    /\ LoggedNumber("o1", 1) = R(1)
    /\ progress.current_points = R(12)

\* C15: every task adds weight to total_points, weight x elapsed_days /
\* total_days to the expected points and, if and only if some date holds a
\* truthy value under its id, weight (once) to current_points, with no
\* importance multiplier.  (The daily objective of weight 1, if the program
\* has it, adds total_days, elapsed_days and its truthy dates.)
C15_TaskPoints ==
    Answered =>
        LET tasks == program.tasks
            total_days == EndOf(program) - StartOf(program) + 1
            elapsed_days ==
                Cardinality({d \in StartOf(program)..EndOf(program) : d <= today})
            n == Len(program.objectives)
            weights == SumInts([k \in 1..Len(tasks) |-> tasks[k].weight])
        IN  /\ progress.kind = "dict"
            /\ progress.total_points = R(weights + n * total_days)
            /\ progress.expected_points
                 = RAdd(Rat(weights * elapsed_days, total_days), R(n * elapsed_days))
            /\ progress.current_points
                 = R(SumInts([k \in 1..Len(tasks) |->
                                IF TruthyDates(tasks[k].id) > 0
                                THEN tasks[k].weight ELSE 0])
                     + n * TruthyDates("o1"))

\* C15 witness: a task done on two dates earns its weight once, the other
\* task earns nothing, part-way through the program.
C15_Witness ==
    /\ Answered
    /\ program.objectives = <<>>
    /\ TruthyDates("t1") = 2
    /\ TruthyDates("t2") = 0
    /\ today = 2
    /\ progress.current_points = R(program.tasks[1].weight)
    /\ program.tasks[1].weight = 58 /\ program.tasks[2].weight = 349

---------------------------------------------------------------------------
(* SpecBadDates: no program file, and programs whose start_date and        *)
(* end_date are each a date, empty, malformed or null.                     *)

BadDatesPrograms ==
    {NoProgram}
    \cup {Program(start_date, end_date, MixedObjectives, <<Task("t1", 5)>>) :
            start_date \in {Ymd(0), EmptyDate, MalformedDate, NullDate},
            end_date \in {Ymd(6), EmptyDate, MalformedDate, NullDate}}

InitBadDates == InitWith(BadDatesPrograms, ZeroLogs, TRUE)

SpecBadDates == InitBadDates /\ [][ProgressNext]_vars

\* The date is absent, empty or not a parseable YYYY-MM-DD date.
BadDate(ds) == ds.k # "ymd"

\* C16: compute_progress returns None and never raises when no program is
\* loaded or when the loaded program's start_date or end_date is null, empty
\* or unparseable, for every entry store.
C16_NoResultNeverRaises ==
    (/\ Answered
     /\ \/ program.k = "None"
        \/ BadDate(program.start_date)
        \/ BadDate(program.end_date)) =>
        /\ raised = ""
        /\ progress.kind = "None"

---------------------------------------------------------------------------
(* SpecConfig: a two-week program whose first objective has an unknown     *)
(* frequency, or a type or scoring its frequency does not support,         *)
(* followed by a daily checkbox objective and a task.                      *)

MaxConfigEntries == 2

ConfigObjective(type, frequency, scoring) ==
    Objective("o1", type, frequency, scoring, 0, 1, 3, "important")

ConfigErrors ==
    {ConfigObjective("checkbox", "monthly", "binary")}
    \cup {ConfigObjective(type, "daily", "binary") : type \in {"cumulative", "latest"}}
    \cup {ConfigObjective(type, "weekly", scoring) :
            type \in {"latest", "other"}, scoring \in {"binary", "proportional"}}
    \cup {ConfigObjective(type, "weekly", "fuzzy") : type \in {"checkbox", "cumulative"}}
    \cup {ConfigObjective("other", "program", "binary")}
    \cup {ConfigObjective(type, "program", "fuzzy") :
            type \in {"checkbox", "cumulative", "latest"}}

ConfigPrograms ==
    {Program(Ymd(0), Ymd(13), <<o, DailyObjective("o2", 1, "bien")>>, <<Task("t1", 5)>>) :
        o \in ConfigErrors}

ConfigLogs ==
    Logs({1, 8},
         <<Item("o1", "objective"), Item("o2", "objective"), Item("t1", "task")>>,
         {<<"1">>}, MaxConfigEntries)

InitConfig == InitWith(ConfigPrograms, ConfigLogs, FALSE)

SpecConfig == InitConfig /\ [][ProgressNext]_vars

\* C17: for an objective of unknown frequency, or of a type or scoring its
\* frequency does not support, the earned-points calculator returns 0
\* without raising, for every entry store, and compute_progress still scores
\* the other objective and the task.
C17_ConfigErrorEarnsZero ==
    Answered =>
        /\ raised = ""
        /\ progress.kind = "dict"
        /\ _compute_objective_points(program, program.objectives[1], user_data)
             = Pts(R(0))
        /\ progress.current_points
             = R(TruthyDates("o2") + (IF TruthyDates("t1") > 0 THEN 5 ELSE 0))

\* C17 witness: the misconfigured objective has a logged entry, and the
\* daily objective's entry is scored next to it.
C17_Witness ==
    /\ Answered
    /\ TruthyDates("o1") = 1
    /\ TruthyDates("o2") = 1
    /\ progress.current_points = R(1)

\* C18: an objective with a configuration error contributes 0 to
\* total_points as well as to current_points: total_points is that of the
\* remaining items, the daily objective (weight 1 x total_days) and the task.
C18_ConfigErrorAddsNoTotal ==
    Answered =>
        /\ progress.kind = "dict"
        /\ progress.total_points
             = R((EndOf(program) - StartOf(program) + 1) + 5)

---------------------------------------------------------------------------
(* SpecNumeric: entries whose value is not a number, under objectives that *)
(* sum or read numbers, for compute_progress and calculate_weekly_progress.*)

MaxNumericEntries == 2

NumericObjectives ==
    {Objective("o1", "cumulative", frequency, scoring, 0, 2, 3, "important") :
        frequency \in {"weekly", "program"}, scoring \in {"binary", "proportional"}}
    \cup {Objective("o1", "latest", "program", scoring, 0, 2, 3, "important") :
            scoring \in {"binary", "proportional"}}

NumericPrograms ==
    {Program(Ymd(0), Ymd(13), <<o>>, <<>>) : o \in NumericObjectives}

NumericLogs ==
    Logs({1, 8}, <<Item("o1", "objective")>>,
         {<<"a", "b", "c">>, <<>>, <<"1">>}, MaxNumericEntries)

InitNumeric == InitWith(NumericPrograms, NumericLogs, FALSE)

NextNumeric == get_progress \/ weekly_progress_call \/ TickSome

SpecNumeric == InitNumeric /\ [][NextNumeric]_vars

\* The log with every value that does not read as a number replaced by "0".
ZeroedLog ==
    [k \in 1..Len(log) |->
        IF ParseFloat(log[k].value).ok THEN log[k]
        ELSE Row(log[k].date, log[k].item_id, log[k].type, <<"0">>)]

\* C19: a non-numeric or empty entry value met where a number is expected
\* is counted as 0 and makes neither compute_progress nor
\* calculate_weekly_progress raise: each returns what it returns for the
\* log where these values are 0.
C19_NonNumericCountsAsZero ==
    /\ call.op = "get_progress" =>
          /\ raised = ""
          /\ progress = compute_progress(program, get_user_data(ZeroedLog), today)
    /\ call.op = "calculate_weekly_progress" =>
          /\ raised = ""
          /\ weekly_progress
               = calculate_weekly_progress(program, get_user_data(ZeroedLog))

---------------------------------------------------------------------------
(* The window of the weekly objectives, on SpecWeekly.                     *)

\* The day lies in a Monday-to-Sunday span inside the program.
InCompleteWeek(prog, d) ==
    \E m \in CompleteMondays(prog) : m <= d /\ d <= m + 6

\* The log without the rows dated outside the complete weeks.
InWindowLog ==
    SelectSeq(log, LAMBDA row : InCompleteWeek(program, row.date))

\* The dates of the item's entries inside the window the code computed.
WindowDates(id) ==
    {d \in 0..MaxLogDay : /\ HasEntry(user_data, d, id)
                          /\ weekly_info.first_monday <= d
                          /\ d <= weekly_info.last_sunday}

\* C20: for a weekly objective, the entries dated before first_monday or
\* after last_sunday never change the earned points (they are those of the
\* log without these entries), and every entry inside the window is put in
\* the week of index (date - first_monday) div 7, which lies in
\* 0..num_complete_weeks-1.
C20_WeeklyWindow ==
    Answered =>
        /\ progress.current_points
             = compute_progress(program, get_user_data(InWindowLog), today).current_points
        /\ \A d \in 0..MaxLogDay :
              HasEntry(user_data, d, "o1") =>
                  (d \in WindowDates("o1") <=> InCompleteWeek(program, d))
        /\ \A d \in WindowDates("o1") :
              LET i == (d - weekly_info.first_monday) \div 7
              IN  /\ i \in 0..(weekly_info.num_complete_weeks - 1)
                  /\ Len(WeekData(program.objectives[1], user_data, weekly_info, i, 1))
                       = Cardinality({e \in WindowDates("o1") :
                                        (e - weekly_info.first_monday) \div 7 = i})

\* C20 witness: a program of one complete week between two partial ones
\* (days 3..16, window 7..13), a checkbox proportional objective of target
\* 2, weight 1, x3, logged on day 4 (before first_monday), day 8 and day 14
\* (after last_sunday): only day 8 counts, 1 x 1/2 x 3 points.
C20_Witness ==
    /\ Answered
    /\ StartOf(program) = 3
    /\ program.objectives[1].type = "checkbox"
    /\ program.objectives[1].scoring = "proportional"
    /\ program.objectives[1].target_value = 2
    /\ HasEntry(user_data, 4, "o1")
    /\ HasEntry(user_data, 8, "o1")
    /\ HasEntry(user_data, 14, "o1")
    /\ progress.current_points = Rat(3, 2)

\* The number of truthy entries of the item in the week of the given Monday.
WeekTruthyCount(id, monday) ==
    Cardinality({d \in monday..(monday + 6) :
                    /\ HasEntry(user_data, d, id)
                    /\ Truthy(Entry(user_data, d, id).value)})

\* C21: for a weekly checkbox objective with binary scoring, the week-value
\* compared with target_value is the number of the week's entries whose
\* value is truthy: an entry stored with value 0 does not count.
C21_WeeklyCheckboxCountsTruthy ==
    (/\ Answered
     /\ program.objectives[1].type = "checkbox"
     /\ program.objectives[1].scoring = "binary") =>
        LET o == program.objectives[1]
            reached == {m \in CompleteMondays(program) :
                          WeekTruthyCount(o.id, m) >= o.target_value}
        IN  progress.current_points
              = R(o.weight * ImportanceFactor(o.importance) * Cardinality(reached))

---------------------------------------------------------------------------
(* SpecEqual: proportional objectives whose target_value equals their      *)
(* start_value.                                                            *)

MaxEqualEntries == 2

EqualObjectives ==
    {Objective("o1", tf[1], tf[2], "proportional", v, v, 3, "bien") :
        tf \in {<<"checkbox", "weekly">>, <<"cumulative", "weekly">>,
                <<"checkbox", "program">>, <<"cumulative", "program">>,
                <<"latest", "program">>},
        v \in {0, 2}}

EqualPrograms ==
    {Program(Ymd(0), Ymd(13), <<o>>, <<Task("t1", 5)>>) : o \in EqualObjectives}

EqualLogs ==
    Logs({1, 8}, <<Item("o1", "objective"), Item("t1", "task")>>,
         {<<"3">>, <<"1">>}, MaxEqualEntries)

InitEqual == InitWith(EqualPrograms, EqualLogs, FALSE)

SpecEqual == InitEqual /\ [][ProgressNext]_vars

\* C22: a proportional objective whose target_value equals its start_value
\* is a configuration error: compute_progress does not raise and the
\* objective contributes zero, so current_points is what the task earns.
C22_EqualStartTargetEarnsZero ==
    Answered =>
        /\ raised = ""
        /\ progress.kind = "dict"
        /\ progress.current_points = R(IF TruthyDates("t1") > 0 THEN 5 ELSE 0)

---------------------------------------------------------------------------
(* SpecShell: the breakdown builder over the programs of SpecBadDates.     *)

BreakdownNext == detailed_breakdown \/ TickSome

SpecShell == InitBadDates /\ [][BreakdownNext]_vars

Broken == call.op = "calculate_detailed_breakdown"

\* C23: calculate_detailed_breakdown returns the empty shell (no
\* objectives, no tasks, totals 0 and 0) and does not raise whenever no
\* program is loaded or the program's start_date or end_date is null, empty
\* or unparseable, for every entry store.
C23_BreakdownEmptyShell ==
    (/\ Broken
     /\ \/ program.k = "None"
        \/ BadDate(program.start_date)
        \/ BadDate(program.end_date)) =>
        /\ raised = ""
        /\ breakdown.objectives = <<>>
        /\ breakdown.tasks = <<>>
        /\ breakdown.totals = [current_points |-> R(0), total_points |-> R(0)]

\* C23 witness: the breakdown of a program with a null start_date, a valid
\* end_date, objectives, a task and a logged entry.
C23_Witness ==
    /\ Broken
    /\ program.k = "Program"
    /\ program.start_date = NullDate
    /\ program.end_date = Ymd(6)
    /\ Len(program.objectives) > 0
    /\ Len(log) > 0
    /\ breakdown = EmptyBreakdown
    /\ raised = ""

---------------------------------------------------------------------------
(* SpecBreakdown: the breakdown builder and the per-week progress over a   *)
(* daily objective of either type followed by a weekly or program          *)
(* objective, or over the latter alone.                                    *)

MaxBreakdownEntries == 2

BreakdownDaily ==
    {Objective("o1", type, "daily", "binary", 0, 1, 3, "important") :
        type \in {"checkbox", "cumulative"}}

BreakdownOthers ==
    {Objective("o2", tf[1], tf[2], scoring, 0, 2, 3, "important") :
        tf \in {<<"checkbox", "weekly">>, <<"cumulative", "weekly">>,
                <<"latest", "program">>},
        scoring \in {"binary", "proportional"}}

BreakdownPrograms ==
    {Program(Ymd(0), Ymd(13), objectives, <<Task("t1", 5)>>) :
        objectives \in {<<d, o>> : d \in BreakdownDaily, o \in BreakdownOthers}
                       \cup {<<o>> : o \in BreakdownOthers}}

BreakdownLogs ==
    Logs({1, 15}, <<Item("o1", "objective"), Item("o2", "objective")>>,
         {<<"1">>, <<"3">>, <<"0">>}, MaxBreakdownEntries)

InitBreakdown == InitWith(BreakdownPrograms, BreakdownLogs, FALSE)

NextBreakdown == detailed_breakdown \/ weekly_progress_call \/ TickSome

SpecBreakdown == InitBreakdown /\ [][NextBreakdown]_vars

\* C24: the earned points the breakdown reports for a weekly or program
\* objective are those compute_progress credits to it; for a daily
\* objective they are weight x (number of dates holding a truthy entry),
\* with no importance multiplier and whatever the objective's type.
C24_BreakdownEarnedPoints ==
    Broken =>
        /\ raised = ""
        /\ Len(breakdown.objectives) = Len(program.objectives)
        /\ \A k \in 1..Len(program.objectives) :
              LET o == program.objectives[k]
              IN  breakdown.objectives[k].current_points
                    = IF o.frequency = "daily"
                      THEN R(o.weight * TruthyDates(o.id))
                      ELSE _compute_objective_points(program, o, user_data).v
        /\ Len(program.objectives) = 1 =>
              breakdown.objectives[1].current_points
                = RSub(compute_progress(program, user_data, today).current_points,
                       breakdown.tasks[1].current_points)

\* C24 witness: a daily objective of type cumulative (weight 3, x2) logged
\* truthy on one date, reported at 3 points where compute_progress credits
\* 0, beside a weekly proportional objective reported at the 9 points
\* compute_progress credits (3 x 3/2 x 2).
C24_Witness ==
    /\ Broken
    /\ Len(program.objectives) = 2
    /\ program.objectives[1].type = "cumulative"
    /\ TruthyDates("o1") = 1
    /\ breakdown.objectives[1].current_points = R(3)
    /\ _compute_objective_points(program, program.objectives[1], user_data).v = R(0)
    /\ program.objectives[2].frequency = "weekly"
    /\ program.objectives[2].scoring = "proportional"
    /\ breakdown.objectives[2].current_points = R(9)

\* The week-value of the per-week progress: the sum of a cumulative
\* objective's entries of the week, the number of a checkbox objective's
\* truthy entries of the week.
WeekProgressValueOf(objective, monday) ==
    IF objective.type = "cumulative"
    THEN WeekSumFrom(objective.id, monday, monday + 6)
    ELSE R(WeekTruthyCount(objective.id, monday))

\* The sum over the given Mondays of weight x week-value / target_value.
RECURSIVE UnclampedSum(_, _)
UnclampedSum(objective, mondays) ==
    IF mondays = {} THEN R(0)
    ELSE LET m == CHOOSE x \in mondays : TRUE
         IN  RAdd(RDiv(RMul(R(objective.weight), WeekValueOf(objective, m)),
                       R(objective.target_value)),
                  UnclampedSum(objective, mondays \ {m}))

\* A complete week of the objective whose week-value exceeds target_value.
ExceedingWeek(objective) ==
    \E m \in CompleteMondays(program) :
        /\ RGe(WeekValueOf(objective, m), R(objective.target_value))
        /\ WeekValueOf(objective, m) # R(objective.target_value)

\* C25 as claimed: for a weekly proportional objective with a week whose
\* week-value exceeds target_value, the breakdown reports earned points
\* that differ from those compute_progress credits, the week being capped
\* at weight in the breakdown.
C25_BreakdownClampsWeek ==
    Broken =>
        \A k \in 1..Len(program.objectives) :
            LET o == program.objectives[k]
            IN  (/\ o.frequency = "weekly"
                 /\ o.scoring = "proportional"
                 /\ ExceedingWeek(o)) =>
                    /\ breakdown.objectives[k].current_points
                         # _compute_objective_points(program, o, user_data).v
                    /\ RGe(R(o.weight * Cardinality(CompleteMondays(program))
                               * ImportanceFactor(o.importance)),
                           breakdown.objectives[k].current_points)

\* C25: for a weekly proportional objective, the per-week progress
\* (calculate_week_progress) credits a week weight x min(week-value /
\* target_value, 1), so a week above target shows 100%, while
\* compute_progress and the breakdown builder alike credit weight x
\* week-value / target_value x multiplier, unclamped.
C25_WeekProgressClampsWeek ==
    (/\ call.op = "calculate_weekly_progress"
     /\ Len(program.objectives) = 1
     /\ program.objectives[1].frequency = "weekly"
     /\ program.objectives[1].scoring = "proportional") =>
        LET o == program.objectives[1]
            unclamped == RMul(UnclampedSum(o, CompleteMondays(program)),
                              R(ImportanceFactor(o.importance)))
            bd == calculate_detailed_breakdown(program, user_data)
        IN  /\ raised = ""
            /\ Len(weekly_progress.weeks) = Cardinality(CompleteMondays(program))
            /\ \A i \in 1..Len(weekly_progress.weeks) :
                  LET ratio == RDiv(WeekProgressValueOf(o, 7 * (i - 1)),
                                    R(o.target_value))
                  IN  weekly_progress.weeks[i]
                        = IF RLt(ratio, R(1))
                          THEN RoundTenths(RMul(ratio, R(100)))
                          ELSE 1000
            /\ bd.objectives[1].current_points = unclamped
            /\ RSub(compute_progress(program, user_data, today).current_points,
                    bd.tasks[1].current_points) = unclamped

\* C25 witness: a cumulative objective of target 2, weight 3, x2 with 3
\* logged in the first week: the week shows 100.0% in the per-week progress
\* and compute_progress credits 9 points, more than the week's 6.
C25_Witness ==
    /\ call.op = "calculate_weekly_progress"
    /\ Len(program.objectives) = 1
    /\ program.objectives[1].frequency = "weekly"
    /\ program.objectives[1].scoring = "proportional"
    /\ program.objectives[1].type = "cumulative"
    /\ WeekValueOf(program.objectives[1], 0) = R(3)
    /\ weekly_progress.weeks = <<1000, 0>>
    /\ compute_progress(program, user_data, today).current_points = R(9)

---------------------------------------------------------------------------
(* The rows a save leaves alone, on Spec.                                  *)

\* The rows of other items, in their order.
RowsOfOthers(rows, item_id) ==
    SelectSeq(rows, LAMBDA row : row.item_id # item_id)

\* The rows of the item on other dates, in their order.
RowsOnOtherDates(rows, item_id, date) ==
    SelectSeq(rows, LAMBDA row : row.item_id = item_id /\ row.date # date)

\* One save_user_data_entry call, from the log before it to the log after.
SaveFrame ==
    call'.op = "save_data" =>
        /\ RowsOfOthers(log', call'.item_id) = RowsOfOthers(log, call'.item_id)
        /\ ~UndoTest(call'.type, call'.value).undo =>
              RowsOnOtherDates(log', call'.item_id, call'.date)
                = RowsOnOtherDates(log, call'.item_id, call'.date)
        /\ (UndoTest(call'.type, call'.value).undo /\ raised' = "") =>
              \A k \in 1..Len(log') : log'[k].item_id # call'.item_id

\* C26: every save_user_data_entry call, undo or not, leaves the rows of
\* the other items unchanged and in the same order; a call that is not an
\* undo also leaves the item's rows of the other dates unchanged; a task
\* undo removes every row of its item_id, whatever type the row was saved
\* with.
C26_SaveFrame == [][SaveFrame]_vars

\* C26 witness: a task undo of o1 issued on a log of two rows, one saved for
\* o1 as an objective and one for t1: only the row of t1 is left.
C26_Witness ==
    /\ IsUndoCall
    /\ call.item_id = "o1"
    /\ call.before = 2
    /\ Len(log) = 1
    /\ log[1].item_id = "t1"
    /\ raised = ""

---------------------------------------------------------------------------
(* The expected points, on SpecDates.                                      *)

\* C27: for start_date <= end_date and every today, the expected points of
\* compute_progress lie between 0 and total_points; they are 0 when today
\* is before start_date, and total_points (expected_progress 100.0 when
\* total_points > 0) when today is end_date or later.
C27_ExpectedWithinTotal ==
    (Answered /\ StartOf(program) <= EndOf(program)) =>
        /\ progress.kind = "dict"
        /\ RGe(progress.expected_points, R(0))
        /\ RGe(progress.total_points, progress.expected_points)
        /\ today < StartOf(program) => progress.expected_points = R(0)
        /\ today >= EndOf(program) =>
              /\ progress.expected_points = progress.total_points
              /\ ~RIsZero(progress.total_points) => progress.expected_progress = 1000

\* C27 witness: on the end_date itself, a Saturday closing a program with
\* one complete week, the expected points are the whole total.
C27_Witness ==
    /\ Answered
    /\ today = EndOf(program)
    /\ weekday(today) = 5
    /\ weekly_info.num_complete_weeks = 1
    /\ progress.expected_points = progress.total_points
    /\ RGe(progress.total_points, R(1))
    /\ progress.expected_progress = 1000

---------------------------------------------------------------------------
(* SpecClock: the programs of SpecDates, with the clock started two days   *)
(* before start_date and advanced one day at a time.                       *)

InitClock ==
    /\ InitDates
    /\ today = StartOf(program_file) - 2

SpecClock == InitClock /\ [][ProgressNext]_vars

\* The program with its weekly objectives only.
WeeklyOnly(prog) ==
    [prog EXCEPT !.objectives = SelectSeq(prog.objectives,
                                          LAMBDA o : o.frequency = "weekly"),
                 !.tasks = <<>>]

\* The expected points of compute_progress for the program on the given day.
ExpectedOn(prog, day) == compute_progress(prog, get_user_data(log), day).expected_points

\* The day is the Sunday that ends a complete week of the program.
EndsCompleteWeek(prog, day) ==
    \E m \in CompleteMondays(prog) : day = m + 6

\* One day passing.
DayStep ==
    today' = today + 1 =>
        /\ RGe(ExpectedOn(program_file, today'), ExpectedOn(program_file, today))
        /\ ExpectedOn(WeeklyOnly(program_file), today')
             = RAdd(ExpectedOn(WeeklyOnly(program_file), today),
                    IF EndsCompleteWeek(program_file, today')
                    THEN R(WeeklyOnly(program_file).objectives[1].weight
                             * ImportanceFactor(
                                 WeeklyOnly(program_file).objectives[1].importance))
                    ELSE R(0))

\* C28: as today advances one day at a time, the expected points of
\* compute_progress never decrease; those of the weekly objective (weight
\* 5, important) grow by weight x multiplier on the Sunday that ends each
\* complete week and on no other day.
C28_ExpectedGrowsWithToday == [][DayStep]_vars

\* C28 witness: compute_progress answered on the Sunday that ends the
\* second complete week, the day before having passed: the expected points
\* of the weekly objective went from 10 to 20.
C28_Witness ==
    /\ Answered
    /\ today > StartOf(program) - 2
    /\ EndsCompleteWeek(program, today)
    /\ ExpectedOn(WeeklyOnly(program), today - 1) = R(10)
    /\ ExpectedOn(WeeklyOnly(program), today) = R(20)
    /\ RGe(progress.expected_points, ExpectedOn(program, today - 1))

---------------------------------------------------------------------------
(* SpecBounded: programs without proportional scoring, their entries       *)
(* written by save requests dated inside the program.                      *)

MaxBoundedRows == 2

BoundedObjectives ==
    {Objective("o2", type, "weekly", "binary", 0, 1, 2, "important") :
        type \in {"checkbox", "cumulative"}}
    \cup {Objective("o2", type, "program", "binary", 0, 2, 3, "important") :
            type \in {"checkbox", "cumulative", "latest"}}

BoundedPrograms ==
    {Program(Ymd(0), Ymd(6), objectives, <<Task("t1", 5)>>) :
        objectives \in {<<o>> : o \in BoundedObjectives}
                       \cup {<<DailyObjective("o1", 1, "important"), o>> :
                                o \in {b \in BoundedObjectives : b.type = "checkbox"}}}

BoundedCalls == {<<"o1", "objective">>, <<"o2", "objective">>, <<"t1", "task">>}
BoundedValues == {PyInt(0), PyInt(3)}

InitBounded ==
    /\ InitWith(BoundedPrograms, {<<>>}, FALSE)
    /\ today = EndOf(program_file)

SaveBounded ==
    \E date \in StoreDays, c \in BoundedCalls, value \in BoundedValues :
        /\ Len(save_user_data_entry(log, date, c[1], c[2], value).rows) <= MaxBoundedRows
        /\ save_data(date, c[1], c[2], value)

NextBounded == SaveBounded \/ get_progress

SpecBounded == InitBounded /\ [][NextBounded]_vars

\* Every row of the log is dated inside the program.
EntriesInsideProgram ==
    \A k \in 1..Len(log) :
        StartOf(program) <= log[k].date /\ log[k].date <= EndOf(program)

\* C29: with no proportional weekly or program objective, non-negative
\* weights and every entry dated within [start_date, end_date], after any
\* sequence of saves and undos compute_progress returns current_points <=
\* total_points and current_progress <= 100.
C29_CurrentWithinTotal ==
    (Answered /\ EntriesInsideProgram) =>
        /\ raised = ""
        /\ progress.kind = "dict"
        /\ RGe(progress.total_points, progress.current_points)
        /\ progress.current_progress <= 1000

\* C29 witness: the program objective reached (latest value 3 against
\* target 2) and the task done: current_points is the whole total, 11.
C29_Witness ==
    /\ Answered
    /\ Len(log) = 2
    /\ Len(program.objectives) = 1
    /\ program.objectives[1].type = "latest"
    /\ progress.current_points = R(11)
    /\ progress.total_points = R(11)
    /\ progress.current_progress = 1000

---------------------------------------------------------------------------
(* SpecCreate: programs created, selected and written to.  The directory   *)
(* starts with one program selected, "default" or "p", and an empty log;   *)
(* entries are saved to the selected program, and programs are created and *)
(* selected by id.                                                         *)

ProgramIds == {"default", "p", "q"}
ProgramNames == {"New"}
CreateValues == {PyInt(1)}

InitCreate ==
    /\ program_file = StoreProgram
    /\ program = NoProgram
    /\ log = <<>>
    /\ today = 0
    /\ call = NoCall
    /\ raised = ""
    /\ user_data = EmptyUserData
    /\ weekly_info = NoWeeklyInfo
    /\ progress = ProgressNone
    /\ weekly_progress = NoWeeklyProgress
    /\ breakdown = EmptyBreakdown
    /\ saved = [k \in {} |-> PyNone]
    /\ data_dir \in {DataDir(id, "P", NoFolders) : id \in {"default", "p"}}

SaveCreate ==
    \E value \in CreateValues : save_data(0, "o1", "objective", value)

CreateSome ==
    \E program_id \in ProgramIds, program_name \in ProgramNames :
        create_program(program_id, program_name)

SelectSome == \E program_id \in ProgramIds : select_program_call(program_id)

NextCreate == SaveCreate \/ CreateSome \/ SelectSome \/ get_progress

SpecCreate == InitCreate /\ [][NextCreate]_vars

\* The two files of the program id, which is listed.
ProgramFileOf(id) ==
    IF id = data_dir.current_program_id THEN program_file
    ELSE data_dir.others[id].program_file

LogOf(id) ==
    IF id = data_dir.current_program_id THEN log ELSE data_dir.others[id].log

\* A step of create_new_program: "default" raises and leaves every file and
\* the selection as they were; any other id raises nothing, and if its
\* program was listed, its definition is the empty one and its log has no
\* row (so that get_user_data reads no entry from it) once the call returns.
CreateStep ==
    \A id \in ProgramIds :
        (call'.op = "create_program" /\ call'.item_id = id) =>
            /\ (id = "default") =>
                /\ raised' = "ValueError"
                /\ UNCHANGED <<program_file, log, data_dir, program, saved>>
            /\ (id # "default") => raised' = ""
            /\ (id # "default" /\ call'.had) =>
                /\ ProgramFileOf(id)' = EmptyProgramFile
                /\ ProgramFileOf(id)'.start_date = EmptyDate
                /\ ProgramFileOf(id)'.end_date = EmptyDate
                /\ ProgramFileOf(id)'.objectives = <<>>
                /\ ProgramFileOf(id)'.tasks = <<>>
                /\ LogOf(id)' = <<>>
                /\ get_user_data(LogOf(id)') = EmptyUserData
                /\ data_dir'.current_program_id = data_dir.current_program_id

\* C30: create_new_program called with the id of a program that exists
\* raises nothing and leaves that program with an empty definition (no
\* dates, no objectives, no tasks) and a log without rows, whatever was
\* saved before; only the id "default" raises, and it changes nothing.
C30_CreateOverwrites == [][CreateStep]_vars

\* C30 witness: the selected program, with a saved entry in its log, was
\* created anew: no error, an empty definition and an empty log.
C30_Witness ==
    /\ call.op = "create_program"
    /\ call.item_id = data_dir.current_program_id
    /\ call.had
    /\ call.before >= 1
    /\ DOMAIN saved # {}
    /\ raised = ""
    /\ program_file = EmptyProgramFile
    /\ log = <<>>

============================================================================
